---- MODULE Spec2Model ----
(***************************************************************************)
(* Model of the kizuna-sdk acquisition core:                               *)
(*   - RateLimiter              (src/src/utils/rateLimiter.ts)             *)
(*   - AutoBuyService           (src/unnamed/part_003)                     *)
(*   - Cache                    (src/src/utils/cache.ts)                   *)
(*   - withRetry                (src/src/utils/errors.ts)                  *)
(*   - AlertService             (src/src/alerts/alert.service.ts)          *)
(*   - UserRateLimiterManager   (src/src/utils/rateLimiter.ts)             *)
(*   - NFTSevice floor prices   (src/unnamed/part_001)                     *)
(*   - EventEmitter             (src/src/utils/events.ts)                  *)
(*   - TransactionMonitor       (src/unnamed/part_005)                     *)
(* Every component has its own specification over the shared variables;    *)
(* the variables of the other components stay at their initial value.      *)
(***************************************************************************)
EXTENDS Integers, Naturals, Sequences, FiniteSets, TLC

VARIABLES
    now,                  \* Date.now(), in milliseconds
    \* ---- RateLimiter ----
    config,               \* RateLimiter.config
    requests,             \* RateLimiter.requests : Map<string, number[]>
    callers,              \* one record per caller of acquire(): where its promise stands
    waitq,                \* history: the callers that had to wait, in order of invocation
    rlRet,                \* the value returned by the call made in the last step, if any
    \* ---- AutoBuyService ----
    positions,            \* AutoBuyService.positions: the ids in the Map, in insertion order
    posObj,               \* the AutoBuyPosition objects, by id (also those removed from the Map)
    timers,               \* the live setInterval timers of the runtime, by handle
    checkInterval,        \* AutoBuyService.checkInterval: a timer handle, 0 for null
    isRunning,            \* AutoBuyService.isRunning
    onPurchaseCallbacks,  \* AutoBuyService.onPurchaseCallbacks
    onErrorCallbacks,     \* AutoBuyService.onErrorCallbacks
    ticks,                \* the executions of checkAllPositions in flight
    abRet,                \* the AutoBuyService step made last and what it did
    \* ---- Cache ----
    store,                \* Cache.store : Map<string, CacheEntry<T>>
    defaultTTL,           \* Cache.defaultTTL, in milliseconds
    gos,                  \* one record per caller of getOrSet(): where its promise stands
    cacheRet,             \* the Cache call made in the last step and what it returned
    \* ---- withRetry ----
    rpc,                  \* where the call of withRetry stands
    opts,                 \* withRetry: opts
    attempt,              \* withRetry: attempt
    delay,                \* withRetry: delay
    lastError,            \* withRetry: lastError
    invocations,          \* history: the outcome of every invocation of fn, in order
    sleeps,               \* history: the duration of every sleep, in order
    settled,              \* the value or error the promise of withRetry settled with
    \* ---- AlertService ----
    alerts,               \* AlertService.alerts: the PriceAlert objects of the Map, in insertion order
    callbacks,            \* AlertService.callbacks : Map<string, AlertCallback[]>
    monitorInterval,      \* AlertService.monitorInterval: a timer handle, 0 for null
    alertTimers,          \* the live setInterval timers of the runtime, by handle
    alertCount,           \* the number of alerts created so far (ids are never reused)
    monitorTicks,         \* the timer callbacks suspended at await getPrices()
    alertRet,             \* the AlertService step made last and what it did
    \* ---- UserRateLimiterManager ----
    limiters,             \* UserRateLimiterManager.limiters: config and requests of each RateLimiter
    mgrRet,               \* the manager call made in the last step and what it returned
    \* ---- NFTSevice ----
    priceCache,           \* NFTSevice.priceCache : Map<string, NFTPriceData>
    nftCalls,             \* one record per caller of a floor price method: where its promise stands
    \* ---- EventEmitter ----
    listeners,            \* EventEmitter.listeners : Map<EventType, EventCallback[]>
    allListeners,         \* EventEmitter.allListeners
    eeRet,                \* the EventEmitter call made in the last step and the listeners it invoked
    \* ---- TransactionMonitor ----
    pendingTxs,           \* TransactionMonitor.pendingTxs : Map<string, PendingTransaction>
    txCallbacks,          \* TransactionMonitor.callbacks : Map<string, callback[]>
    pollInterval,         \* TransactionMonitor.pollInterval: a timer handle, 0 for null
    pollTimers,           \* the live setInterval timers of the runtime, by handle
    tmRet                 \* the TransactionMonitor step made last

rlVars == <<config, requests, callers, waitq, rlRet>>

abVars == <<positions, posObj, timers, checkInterval, isRunning,
            onPurchaseCallbacks, onErrorCallbacks, ticks, abRet>>

cacheVars == <<store, defaultTTL, gos, cacheRet>>

retryVars == <<rpc, opts, attempt, delay, lastError, invocations, sleeps, settled>>

alertVars == <<alerts, callbacks, monitorInterval, alertTimers, alertCount,
               monitorTicks, alertRet>>

mgrVars == <<limiters, mgrRet>>

nftVars == <<priceCache, nftCalls>>

eeVars == <<listeners, allListeners, eeRet>>

tmVars == <<pendingTxs, txCallbacks, pollInterval, pollTimers, tmRet>>

vars == <<now, rlVars, abVars, cacheVars, retryVars, alertVars,
          mgrVars, nftVars, eeVars, tmVars>>

\* what a step of one component leaves alone
notRL == <<abVars, cacheVars, retryVars, alertVars, mgrVars, nftVars, eeVars, tmVars>>
notAB == <<rlVars, cacheVars, retryVars, alertVars, mgrVars, nftVars, eeVars, tmVars>>
notCache == <<rlVars, abVars, retryVars, alertVars, mgrVars, nftVars, eeVars, tmVars>>
notRetry == <<rlVars, abVars, cacheVars, alertVars, mgrVars, nftVars, eeVars, tmVars>>
notAlert == <<rlVars, abVars, cacheVars, retryVars, mgrVars, nftVars, eeVars, tmVars>>
notMgr == <<rlVars, abVars, cacheVars, retryVars, alertVars, nftVars, eeVars, tmVars>>
notNFT == <<abVars, cacheVars, retryVars, alertVars, mgrVars, eeVars, tmVars>>
notEE == <<rlVars, abVars, cacheVars, retryVars, alertVars, mgrVars, nftVars, tmVars>>
notTM == <<rlVars, abVars, cacheVars, retryVars, alertVars, mgrVars, nftVars, eeVars>>

----------------------------------------------------------------------------
(* Bounds of the model *)

MaxTime == 3          \* the clock of the safety specifications stops here
LiveStartBy == 1      \* the calls of the liveness specification are made by then
MaxPositions == 1     \* positions created in one run
MaxPausePositions == 2    \* positions created in a run of SpecPause
MaxTicks == 2         \* executions of checkAllPositions in flight at once
MaxCallbacks == 2     \* observers registered per list
MaxCacheTicks == 3    \* steps of the clock in the Cache specification
MaxAlerts == 2        \* alerts created in one run
MaxAlertCallbacks == 2   \* callbacks registered per alert id
MaxMonitorTicks == 2  \* timer callbacks of the AlertService in flight at once

Keys == {"a", ""}
Callers == {"c1", "c2"}
ReqValues == {0, 1, 2}        \* values of maxRequests
WinValues == {1, 2}        \* values of timeWindowMs

Max(a, b) == IF a >= b THEN a ELSE b
SetMax(S) == CHOOSE x \in S : \A y \in S : y <= x

----------------------------------------------------------------------------
(* RateLimiter: pure parts *)

\* (mutant) every key reads the log of the key "a"
GetLog_OneLog(reqs, key) == IF "a" \in DOMAIN reqs THEN reqs["a"] ELSE <<>>

\* this.requests.get(key) || []
GetLog(reqs, key) == IF key \in DOMAIN reqs THEN reqs[key] ELSE <<>>

\* this.requests.set(key, v)
SetLog(reqs, key, v) ==
    [k \in (DOMAIN reqs) \cup {key} |-> IF k = key THEN v ELSE reqs[k]]

\* this.requests.delete(key)
DeleteLog(reqs, key) == [k \in (DOMAIN reqs) \ {key} |-> reqs[k]]

\* timestamps.filter(ts => now - ts < this.config.timeWindowMs)
ValidTimestamps(timestamps, t, cfg) ==
    SelectSeq(timestamps, LAMBDA ts : t - ts < cfg.timeWindowMs)

\* validTimestamps.length >= this.config.maxRequests
AtLimit(valid, cfg) == Len(valid) >= cfg.maxRequests

\* waitTime = timeWindowMs - (now - validTimestamps[0]); with an empty list
\* validTimestamps[0] is undefined and the result is NaN
WaitIsNaN(valid) == valid = <<>>
WaitTime(valid, t, cfg) == cfg.timeWindowMs - (t - valid[1])

\* acquire(): the branch that sleeps. NaN > 0 is false.
AcquireMustWait(valid, t, cfg) ==
    /\ AtLimit(valid, cfg)
    /\ ~WaitIsNaN(valid)
    /\ WaitTime(valid, t, cfg) > 0

\* tryAcquire(): the value returned
TryAcquireResult(reqs, key, t, cfg) ==
    ~AtLimit(ValidTimestamps(GetLog(reqs, key), t, cfg), cfg)

\* { ...this.config, ...config }
Merge(base, partial) ==
    [f \in (DOMAIN base) \cup (DOMAIN partial) |->
        IF f \in DOMAIN partial THEN partial[f] ELSE base[f]]

PartialConfigs ==
    {[maxRequests |-> m] : m \in ReqValues}
        \cup {[timeWindowMs |-> w] : w \in WinValues}
        \cup {[maxRequests |-> m, timeWindowMs |-> w] : m \in ReqValues, w \in WinValues}

\* number of recorded admissions of key younger than the window
WindowCount(reqs, key, t, cfg) == Len(ValidTimestamps(GetLog(reqs, key), t, cfg))

----------------------------------------------------------------------------
(* RateLimiter: state *)

IdleCaller == [pc |-> "idle", key |-> "", wakeAt |-> 0]

\* rlRet: the call made in the last step and what it returned.
\*   ok      the boolean returned by tryAcquire / resolved by acquire
\*   wait    the number returned by getWaitTime, or slept by acquire
\*   nan     getWaitTime returned NaN
\*   resumed the step ran acquire again after a sleep
\*   partial the argument of updateConfig
NoRet ==
    [op |-> "none", key |-> "", caller |-> "", ok |-> FALSE, wait |-> 0,
     nan |-> FALSE, resumed |-> FALSE, partial |-> <<>>]

RLIdle ==
    /\ requests = <<>>
    /\ callers = [c \in Callers |-> IdleCaller]
    /\ waitq = <<>>
    /\ rlRet = NoRet

\* abRet: the AutoBuyService step made last.
\*   pos       the position the step was about (0: none)
\*   ok        the boolean the call returned
\*   resp      the listings the query returned (failed: the query threw)
\*   matched   checkListings returned a trigger
\*   outcome   the status of the transfer that returned
\*   notified  purchase observers called, errNotified: error observers called
\*   escaped   an exception left checkAllPositions
NoAbRet ==
    [op |-> "none", pos |-> 0, ok |-> FALSE, failed |-> FALSE, resp |-> <<>>,
     matched |-> FALSE, outcome |-> "", notified |-> 0, errNotified |-> 0, escaped |-> FALSE]

FreeTick == [pc |-> "free", idx |-> 0, cur |-> 0, trigger |-> <<>>]

TickIds == 1..MaxTicks

\* new AutoBuyService(wallet)
ABIdle ==
    /\ positions = <<>>
    /\ posObj = <<>>
    /\ timers = <<>>
    /\ checkInterval = 0
    /\ isRunning = FALSE
    /\ onPurchaseCallbacks = <<>>
    /\ onErrorCallbacks = <<>>
    /\ ticks = [t \in TickIds |-> FreeTick]
    /\ abRet = NoAbRet

\* cacheRet: the Cache call made in the last step.
\*   value    the value returned (NullValue for null)
\*   ok       the boolean returned by has / delete
\*   n        the number returned by size
\*   hit      getOrSet returned the cached value
\*   factory  the step invoked the factory
\*   threw    the promise of getOrSet rejected
NullValue == "null"

NoCacheRet ==
    [op |-> "none", caller |-> "", key |-> "", value |-> NullValue, ok |-> FALSE,
     n |-> 0, hit |-> FALSE, factory |-> FALSE, threw |-> FALSE]

\* a caller of getOrSet: idle, or suspended at await factory().
\*   alone   no other call on the cache was made since this call began
IdleGos == [pc |-> "idle", key |-> "", arg |-> <<>>, alone |-> FALSE]

GosCallers == {"g1", "g2"}

\* the store of a new Cache (defaultTTL is set by the constructor)
CacheIdle ==
    /\ store = <<>>
    /\ gos = [c \in GosCallers |-> IdleGos]
    /\ cacheRet = NoCacheRet

\* an error thrown by fn, or the value it resolved with (kind "ok"); id tells
\* the objects apart: the number of the invocation that produced it
NoError == [kind |-> "", id |-> 0]

\* DEFAULT_RETRY_OPTIONS.  shouldRetry is a function or undefined; a function
\* is kept as the set of error kinds it returns true for.
DEFAULT_RETRY_OPTIONS ==
    [maxRetries |-> 3, initialDelayMs |-> 1000, maxDelayMs |-> 10000,
     backoffMultiplier |-> 2,
     shouldRetry |-> [defined |-> TRUE,
                      retryable |-> {"429", "ECONNREFUSED", "ETIMEDOUT"}]]

\* alertRet: the AlertService step made last.
\*   ok         the boolean the call returned
\*   prices     the prices checkAlerts was called with
\*   triggered  the ids of the alerts checkAlerts pushed to its result, in order
\*   invoked    the callbacks called, in order, as <<alert id, callback>>
\*   threw      a callback threw and checkAlerts rejected
NoAlertRet ==
    [op |-> "none", id |-> 0, ok |-> FALSE, prices |-> <<>>, triggered |-> <<>>,
     invoked |-> <<>>, threw |-> FALSE]

\* new AlertService()
AlertIdle ==
    /\ alerts = <<>>
    /\ callbacks = <<>>
    /\ monitorInterval = 0
    /\ alertTimers = {}
    /\ alertCount = 0
    /\ monitorTicks = 0
    /\ alertRet = NoAlertRet

\* no call of withRetry has been made
RetryIdle ==
    /\ rpc = "idle"
    /\ opts = DEFAULT_RETRY_OPTIONS
    /\ attempt = 0
    /\ delay = 0
    /\ lastError = NoError
    /\ invocations = <<>>
    /\ sleeps = <<>>
    /\ settled = NoError

\* DEFAULT_CONFIGS of the UserRateLimiterManager
DEFAULT_CONFIGS ==
    [openSea |-> [maxRequests |-> 2, timeWindowMs |-> 1000],
     blur |-> [maxRequests |-> 5, timeWindowMs |-> 1000],
     tensor |-> [maxRequests |-> 3, timeWindowMs |-> 1000],
     rpc |-> [maxRequests |-> 10, timeWindowMs |-> 1000],
     dexScreener |-> [maxRequests |-> 10, timeWindowMs |-> 1000]]

\* an entry of the user's configuration that is undefined
Undefined == [undefined |-> TRUE]
Configured(c) == "undefined" \notin DOMAIN c

\* c.f || d : an absent field and 0 give the default
OrDefault(c, f, d) == IF f \in DOMAIN c /\ c[f] # 0 THEN c[f] ELSE d

\* constructor and initializeLimiters(): one RateLimiter per entry of
\* { ...DEFAULT_CONFIGS, ...userConfig } whose value is truthy
InitializeLimiters(userConfig) ==
    LET merged == Merge(DEFAULT_CONFIGS, userConfig) IN
    [s \in {x \in DOMAIN merged : Configured(merged[x])} |->
        [config |-> [maxRequests |-> OrDefault(merged[s], "maxRequests", 10),
                     timeWindowMs |-> OrDefault(merged[s], "timeWindowMs", 1000)],
         requests |-> <<>>,
         sleepers |-> <<>>]]

\* mgrRet: the manager call made in the last step.
\*   ok      the boolean returned by tryAcquire / resolved by acquire
\*   wait    the number returned by getWaitTime, nan: it returned NaN
\*   slept   the call of acquire went to sleep in this step
MgrRet(op, service, key) ==
    [op |-> op, service |-> service, key |-> key, ok |-> FALSE, wait |-> 0,
     nan |-> FALSE, slept |-> FALSE]

NoCall == [op |-> "none"]

\* no UserRateLimiterManager has been constructed
MgrIdle ==
    /\ limiters = <<>>
    /\ mgrRet = NoCall

\* new NFTSevice(wallet, rateLimiters); no floor price has been asked for
NFTIdle ==
    /\ priceCache = <<>>
    /\ nftCalls = <<>>

\* eeRet: the EventEmitter call made in the last step.
\*   type     the event type of the call
\*   before   the listeners registered for the type when emit was called
\*   any      the onAny listeners when emit was called
\*   invoked  the listeners of the type emit called, in order, each named by
\*            its position in `before`; kept: those still registered afterwards
\*   anyInvoked  the number of onAny listeners emit called
\*   threw    a listener threw and the exception left emit
EeRet(op, type) == [op |-> op, type |-> type]

\* new EventEmitter()
EEIdle ==
    /\ listeners = <<>>
    /\ allListeners = <<>>
    /\ eeRet = NoCall

\* tmRet: the TransactionMonitor step made last (hash: the transaction it was about)
TmRet(op, hash) == [op |-> op, hash |-> hash]

\* new TransactionMonitor(wallet)
TMIdle ==
    /\ pendingTxs = <<>>
    /\ txCallbacks = <<>>
    /\ pollInterval = 0
    /\ pollTimers = {}
    /\ tmRet = NoCall

\* new RateLimiter(config)
RLInit ==
    /\ now = 0
    /\ config \in [maxRequests : ReqValues, timeWindowMs : WinValues]
    /\ RLIdle
    /\ ABIdle
    /\ CacheIdle
    /\ defaultTTL = 0
    /\ RetryIdle
    /\ AlertIdle
    /\ MgrIdle
    /\ NFTIdle
    /\ EEIdle
    /\ TMIdle

Remove(q, c) == SelectSeq(q, LAMBDA x : x # c)
InSeq(q, c) == \E i \in DOMAIN q : q[i] = c

\* One run of the body of acquire(key) for caller c: either it goes to sleep
\* (setTimeout(waitTime)), or it records the admission and resolves true.
AcquireBody(c, key, resumed) ==
    LET valid == ValidTimestamps(GetLog(requests, key), now, config)
        ret == [NoRet EXCEPT !.op = "acquire", !.key = key, !.caller = c,
                             !.resumed = resumed]
    IN
    IF AcquireMustWait(valid, now, config)
    THEN /\ callers' = [callers EXCEPT ![c] =
                [pc |-> "sleeping", key |-> key,
                 wakeAt |-> now + WaitTime(valid, now, config)]]
         /\ waitq' = IF InSeq(waitq, c) THEN waitq ELSE Append(waitq, c)
         /\ rlRet' = [ret EXCEPT !.wait = WaitTime(valid, now, config)]
         /\ UNCHANGED requests
    ELSE /\ requests' = SetLog(requests, key, Append(valid, now))
         /\ callers' = [callers EXCEPT ![c] =
                [pc |-> "resolved", key |-> key, wakeAt |-> 0]]
         /\ waitq' = Remove(waitq, c)
         /\ rlRet' = [ret EXCEPT !.ok = TRUE]

\* acquire(key) is invoked by caller c
AcquireCall(c, key) ==
    /\ callers[c].pc # "sleeping"
    /\ AcquireBody(c, key, FALSE)
    /\ UNCHANGED <<now, config, notRL>>

\* (mutant) after the sleep the call resolves true without running acquire again
AcquireResume_NoRetry(c) ==
    /\ callers[c].pc = "sleeping"
    /\ now >= callers[c].wakeAt
    /\ callers' = [callers EXCEPT ![c] = [@ EXCEPT !.pc = "resolved", !.wakeAt = 0]]
    /\ waitq' = Remove(waitq, c)
    /\ rlRet' = [NoRet EXCEPT !.op = "acquire", !.key = callers[c].key, !.caller = c,
                              !.resumed = TRUE, !.ok = TRUE]
    /\ UNCHANGED <<now, config, requests, notRL>>

\* the timer of sleep(waitTime) fires (at its due time or later) and the
\* caller runs `return this.acquire(key)`
AcquireResume(c) ==
    /\ callers[c].pc = "sleeping"
    /\ now >= callers[c].wakeAt
    /\ AcquireBody(c, callers[c].key, TRUE)
    /\ UNCHANGED <<now, config, notRL>>

\* tryAcquire(key)
TryAcquire(key) ==
    LET valid == ValidTimestamps(GetLog(requests, key), now, config) IN
    /\ IF AtLimit(valid, config)
       THEN /\ rlRet' = [NoRet EXCEPT !.op = "tryAcquire", !.key = key, !.ok = FALSE]
            /\ UNCHANGED requests
       ELSE /\ requests' = SetLog(requests, key, Append(valid, now))
            /\ rlRet' = [NoRet EXCEPT !.op = "tryAcquire", !.key = key, !.ok = TRUE]
    /\ UNCHANGED <<now, config, callers, waitq, notRL>>

\* getWaitTime(key)
GetWaitTimeResult(reqs, key, t, cfg) ==
    LET valid == ValidTimestamps(GetLog(reqs, key), t, cfg) IN
    IF AtLimit(valid, cfg)
    THEN IF WaitIsNaN(valid)
         THEN [NoRet EXCEPT !.op = "getWaitTime", !.key = key, !.nan = TRUE]
         ELSE [NoRet EXCEPT !.op = "getWaitTime", !.key = key,
                            !.wait = WaitTime(valid, t, cfg)]
    ELSE [NoRet EXCEPT !.op = "getWaitTime", !.key = key, !.wait = 0]

GetWaitTime(key) ==
    /\ rlRet' = GetWaitTimeResult(requests, key, now, config)
    /\ UNCHANGED <<now, config, requests, callers, waitq, notRL>>

\* reset(key): `if (key)` is false for the empty string as for undefined
Truthy(key) == key # "" /\ key # "undefined"

ResetLogs(reqs, key) == IF Truthy(key) THEN DeleteLog(reqs, key) ELSE <<>>

Reset(key) ==
    /\ requests' = ResetLogs(requests, key)
    /\ rlRet' = [NoRet EXCEPT !.op = "reset", !.key = key]
    /\ UNCHANGED <<now, config, callers, waitq, notRL>>

\* updateConfig(partial)
\* (mutant) updateConfig also forgets the recorded admissions
UpdateConfig_ClearsLogs(partial) ==
    /\ config' = Merge(config, partial)
    /\ config' # config
    /\ requests' = <<>>
    /\ rlRet' = [NoRet EXCEPT !.op = "updateConfig", !.partial = partial]
    /\ UNCHANGED <<now, callers, waitq, notRL>>

UpdateConfig(partial) ==
    /\ config' = Merge(config, partial)
    /\ config' # config
    /\ rlRet' = [NoRet EXCEPT !.op = "updateConfig", !.partial = partial]
    /\ UNCHANGED <<now, requests, callers, waitq, notRL>>

\* time passes
Tick ==
    /\ now < MaxTime
    /\ now' = now + 1
    /\ rlRet' = NoRet
    /\ UNCHANGED <<config, requests, callers, waitq, notRL>>

RLNext ==
    \/ \E c \in Callers, k \in Keys : AcquireCall(c, k)
    \/ \E c \in Callers : AcquireResume(c)
    \/ \E k \in Keys : TryAcquire(k)
    \/ \E k \in Keys : GetWaitTime(k)
    \/ \E k \in Keys \cup {"undefined"} : Reset(k)
    \/ \E p \in PartialConfigs : UpdateConfig(p)
    \/ Tick

Spec == RLInit /\ [][RLNext]_vars

----------------------------------------------------------------------------
(* RateLimiter: liveness of acquire().  Calls are made until LiveStartBy    *)
(* (finitely many competitors); afterwards only the timers and the clock    *)
(* run.  The clock is finite, so a timer fires when it is due (the clock    *)
(* does not run past a due timer) and the clock runs long enough for every  *)
(* waiter to be served in turn.                                             *)

LiveMaxTime == LiveStartBy + (Cardinality(Callers) + 1) * SetMax(WinValues)

TimerDue(c) == callers[c].pc = "sleeping" /\ now >= callers[c].wakeAt

LiveTick ==
    /\ now < LiveMaxTime
    /\ \A c \in Callers : ~TimerDue(c)
    /\ now' = now + 1
    /\ rlRet' = NoRet
    /\ UNCHANGED <<config, requests, callers, waitq, notRL>>

LiveNext ==
    \/ \E c \in Callers, k \in Keys :
          /\ now <= LiveStartBy
          /\ callers[c].pc = "idle"
          /\ AcquireCall(c, k)
    \/ \E c \in Callers : AcquireResume(c)
    \/ \E k \in Keys : now <= LiveStartBy /\ TryAcquire(k)
    \/ \E k \in Keys \cup {"undefined"} : now <= LiveStartBy /\ Reset(k)
    \/ \E p \in PartialConfigs : now <= LiveStartBy /\ UpdateConfig(p)
    \/ LiveTick

SpecLive ==
    /\ RLInit
    /\ [][LiveNext]_vars
    /\ WF_vars(LiveTick)
    /\ \A c \in Callers : WF_vars(AcquireResume(c))

----------------------------------------------------------------------------
(* RateLimiter: claims *)

\* C1: for every key, the number of recorded admissions younger than the
\* window never exceeds maxRequests.
C1_WindowBound ==
    \A k \in Keys : WindowCount(requests, k, now, config) <= config.maxRequests

\* C6: tryAcquire(k) returns false exactly when acquire(k) at the same instant
\* would have to wait; returning true it has recorded exactly one admission,
\* returning false it has recorded none.
C6_TryAcquireIffAcquireWaits ==
    [][rlRet'.op = "tryAcquire" =>
        LET k == rlRet'.key
            valid == ValidTimestamps(GetLog(requests, k), now, config)
        IN
        /\ (~rlRet'.ok) <=> AcquireMustWait(valid, now, config)
        /\ rlRet'.ok => GetLog(requests', k) = Append(valid, now)
        /\ ~rlRet'.ok => requests' = requests]_vars

\* C7: every acquire(key) that has to wait is eventually resolved, with true,
\* and the step that resolves it records exactly one admission for key.
C7_AcquireTerminates ==
    /\ \A c \in Callers : (callers[c].pc = "sleeping") ~> (callers[c].pc = "resolved")
    /\ [][\A c \in Callers :
              (callers[c].pc # "resolved" /\ callers'[c].pc = "resolved") =>
                  LET k == callers'[c].key IN
                  /\ rlRet'.op = "acquire" /\ rlRet'.caller = c /\ rlRet'.ok
                  /\ GetLog(requests', k) =
                        Append(ValidTimestamps(GetLog(requests, k), now, config), now)]_vars

\* C7 witness: a caller that slept has been admitted
C7_Witness == rlRet.op = "acquire" /\ rlRet.resumed /\ rlRet.ok

\* the outcome of acquire(key) for the logs reqs: does it sleep, and how long
AcquireOutcome(reqs, key, t, cfg) ==
    LET valid == ValidTimestamps(GetLog(reqs, key), t, cfg) IN
    IF AcquireMustWait(valid, t, cfg)
    THEN [sleeps |-> TRUE, wait |-> WaitTime(valid, t, cfg)]
    ELSE [sleeps |-> FALSE, wait |-> 0]

\* C8: acquire, tryAcquire and getWaitTime on key j leave the log of every
\* other key k as it is, and their outcome is the one they would have had if
\* k had never been used.
C8_KeyIndependence ==
    [][rlRet'.op \in {"acquire", "tryAcquire", "getWaitTime"} =>
        LET j == rlRet'.key IN
        \A k \in Keys \ {j} :
            LET unused == DeleteLog(requests, k) IN
            /\ DeleteLog(requests', j) = DeleteLog(requests, j)
            /\ rlRet'.op = "tryAcquire" =>
                  rlRet'.ok = TryAcquireResult(unused, j, now, config)
            /\ rlRet'.op = "getWaitTime" =>
                  rlRet' = GetWaitTimeResult(unused, j, now, config)
            /\ rlRet'.op = "acquire" =>
                  [sleeps |-> ~rlRet'.ok, wait |-> rlRet'.wait]
                      = AcquireOutcome(unused, j, now, config)]_vars

\* C8 witness: tryAcquire on one key has just succeeded while the window of
\* another key is full
C8_Witness ==
    /\ rlRet.op = "tryAcquire" /\ rlRet.ok
    /\ config.maxRequests >= 1
    /\ \E k \in Keys \ {rlRet.key} :
          WindowCount(requests, k, now, config) >= config.maxRequests

\* C9: a caller of acquire(k) that had to wait is admitted only when no
\* caller that started to wait on k before it is still waiting.
C9_FifoAmongWaiters ==
    [][\A c \in Callers :
          (callers[c].pc = "sleeping" /\ callers'[c].pc = "resolved") =>
              \A i \in DOMAIN waitq :
                  (waitq[i] # c /\ callers[waitq[i]].key = callers[c].key) =>
                      \E j \in 1..(i - 1) : waitq[j] = c]_vars

\* C29 (getWaitTime): getWaitTime(key) returns 0 exactly when tryAcquire(key)
\* at the same instant would return true (fewer than maxRequests admissions of
\* the key are younger than the window); otherwise it returns the positive
\* time until the oldest of them leaves the window; no log is changed.
C29_GetWaitTime ==
    [][rlRet'.op = "getWaitTime" =>
        LET log == GetLog(requests, rlRet'.key)
            inWindow == {i \in DOMAIN log : now - log[i] < config.timeWindowMs}
            free == Cardinality(inWindow) < config.maxRequests
        IN
        /\ requests' = requests
        /\ ~rlRet'.nan
        /\ free => rlRet'.wait = 0
        /\ ~free =>
              /\ rlRet'.wait > 0
              /\ \E i \in inWindow :
                    /\ \A j \in inWindow : log[i] <= log[j]
                    /\ rlRet'.wait = log[i] + config.timeWindowMs - now
      ]_vars

\* C30 (reset): reset(key) with a key string removes the log of that key and
\* leaves the log of every other key as it is; reset() without an argument
\* removes the logs of all keys.
C30_Reset ==
    [][rlRet'.op = "reset" =>
        IF rlRet'.key = "undefined"
        THEN requests' = <<>>
        ELSE /\ rlRet'.key \notin DOMAIN requests'
             /\ \A k \in (DOMAIN requests) \ {rlRet'.key} :
                   k \in DOMAIN requests' /\ requests'[k] = requests[k]
      ]_vars

\* C31 (updateConfig): the call writes the supplied fields into the
\* configuration, keeps the others, and changes no log and no waiting caller;
\* every acquire (first run or re-run after a sleep), tryAcquire and
\* getWaitTime is evaluated with the configuration current at that step.
C31_UpdateConfig ==
    [][ LET op == rlRet'.op
            log == GetLog(requests, rlRet'.key)
            inWindow == {i \in DOMAIN log : now - log[i] < config.timeWindowMs}
            full == Cardinality(inWindow) >= config.maxRequests
            first == CHOOSE i \in inWindow : \A j \in inWindow : i <= j
            remaining == config.timeWindowMs - (now - log[first])
        IN
        /\ op = "updateConfig" =>
              /\ requests' = requests /\ callers' = callers /\ waitq' = waitq
              /\ DOMAIN config' = DOMAIN config
              /\ \A f \in DOMAIN config :
                    config'[f] = IF f \in DOMAIN rlRet'.partial
                                 THEN rlRet'.partial[f] ELSE config[f]
        /\ op = "tryAcquire" => (rlRet'.ok <=> ~full)
        /\ op = "getWaitTime" =>
              IF ~full THEN rlRet'.wait = 0 /\ ~rlRet'.nan
              ELSE IF inWindow = {} THEN rlRet'.nan
              ELSE rlRet'.wait = remaining /\ ~rlRet'.nan
        /\ op = "acquire" =>
              IF full /\ inWindow # {} /\ remaining > 0
              THEN ~rlRet'.ok /\ rlRet'.wait = remaining
              ELSE rlRet'.ok
      ]_vars

\* updateConfig has just run while a caller of acquire is asleep and
\* admissions are on record
C31_Witness ==
    /\ rlRet.op = "updateConfig"
    /\ \E c \in Callers : callers[c].pc = "sleeping"
    /\ \E k \in DOMAIN requests : requests[k] # <<>>

----------------------------------------------------------------------------
(* AutoBuyService: prices *)

\* A decimal number m * 10^e.  base_price is a string of digits (wei), maxPrice
\* a decimal string; both are kept as mantissa and exponent.
RECURSIVE Pow10(_)
Pow10(n) == IF n = 0 THEN 1 ELSE 10 * Pow10(n - 1)

\* a <= b for decimals with mantissas below 10^9
DecLeq(a, b) ==
    LET d == a.e - b.e IN
    IF d >= 0
    THEN IF d > 8 THEN a.m = 0 ELSE a.m * Pow10(d) <= b.m
    ELSE IF (-d) > 8 THEN (b.m # 0 \/ a.m = 0) ELSE a.m <= b.m * Pow10(-d)

DefaultDecimals == 18

\* convertPrice(price, decimals): parseInt(price) / Math.pow(10, decimals)
ConvertPrice(price, decimals) == [m |-> price.m, e |-> price.e - decimals]

\* listing.payment_token?.decimals || 18   (0 stands for absent, too)
ListingDecimals(listing) ==
    IF listing.decimals = 0 THEN DefaultDecimals ELSE listing.decimals

\* price <= maxPrice, for one listing of the response
Triggers(listing, maxPrice) ==
    DecLeq(ConvertPrice(listing.base_price, ListingDecimals(listing)), maxPrice)

\* the loop of checkListings: the first listing that triggers, 0 if none
FirstMatch(listings, maxPrice) ==
    IF \E i \in DOMAIN listings : Triggers(listings[i], maxPrice)
    THEN CHOOSE i \in DOMAIN listings :
            /\ Triggers(listings[i], maxPrice)
            /\ \A j \in 1..(i - 1) : ~Triggers(listings[j], maxPrice)
    ELSE 0

\* the PurchaseTrigger built from a listing
TriggerOf(listing) ==
    [tokenId |-> listing.token_id, price |-> listing.base_price]

\* inputs: listings of the market-data response
ListingEq == [base_price |-> [m |-> 3, e |-> 17], decimals |-> 18, token_id |-> "t1"]
ListingHi == [base_price |-> [m |-> 4, e |-> 17], decimals |-> 18, token_id |-> "t2"]

Responses == {<<>>, <<ListingHi>>, <<ListingEq>>, <<ListingHi, ListingEq>>}

MaxPrices == {[m |-> 3, e |-> -1]}      \* maxPrice: "0.3"
RetryValues == {0, 2}                   \* maxRetries given to createPosition
DefaultMaxRetries == 5
IntervalValues == {1}                   \* checkIntervalMs given to start

\* the AutoBuyConfig objects given to createPosition: maxRetries and
\* stopOnError are optional
AutoBuyConfigs ==
    {Merge(Merge([maxPrice |-> p], r), st) :
        p \in MaxPrices,
        r \in {<<>>} \cup {[maxRetries |-> n] : n \in RetryValues},
        st \in {<<>>} \cup {[stopOnError |-> b] : b \in BOOLEAN}}

\* config.maxRetries || 5
MaxRetriesOf(cfg) ==
    IF "maxRetries" \in DOMAIN cfg /\ cfg.maxRetries # 0
    THEN cfg.maxRetries ELSE DefaultMaxRetries

\* config.stopOnError ?? true
StopOnErrorOf(cfg) ==
    IF "stopOnError" \in DOMAIN cfg THEN cfg.stopOnError ELSE TRUE

NoFulfilment == [tokenId |-> "", price |-> [m |-> 0, e |-> 0], txHash |-> ""]

----------------------------------------------------------------------------
(* AutoBuyService: the Map of positions and its iterators *)

InMap(id) == InSeq(positions, id)

IndexOf(q, id) == CHOOSE i \in DOMAIN q : q[i] = id

\* this.positions.set(id, position): a new key goes to the end
MapSet(q, id) == IF InSeq(q, id) THEN q ELSE Append(q, id)

\* an iterator of the Map that has passed idx entries, after the entry at
\* index j was deleted
IterAfterDelete(idx, j) == IF j <= idx THEN idx - 1 ELSE idx

\* the next entry the loop of checkAllPositions stops at: the first one after
\* idx whose status is active (0: the loop ends)
NextActive(q, objs, idx) ==
    IF \E i \in (idx + 1)..Len(q) : objs[q[i]].status = "active"
    THEN CHOOSE i \in (idx + 1)..Len(q) :
            /\ objs[q[i]].status = "active"
            /\ \A j \in (idx + 1)..(i - 1) : objs[q[j]].status # "active"
    ELSE 0

\* checkAllPositions runs on from entry idx until its next await: it stamps
\* lastCheck on the next active position and issues the listing query for it,
\* or the loop ends.
LoopOn(t, q, objs, tks, idx) ==
    LET i == NextActive(q, objs, idx) IN
    IF i = 0
    THEN /\ ticks' = [tks EXCEPT ![t] = FreeTick]
         /\ posObj' = objs
    ELSE /\ ticks' = [tks EXCEPT ![t] =
                [pc |-> "query", idx |-> i, cur |-> q[i], trigger |-> <<>>]]
         /\ posObj' = [objs EXCEPT ![q[i]].lastCheck = now]

Running == {t \in TickIds : ticks[t].pc # "free"}

----------------------------------------------------------------------------
(* AutoBuyService: operations *)

\* createPosition(config)
CreatePositionWithin(cfg, max) ==
    LET id == Len(posObj) + 1 IN
    /\ id <= max
    /\ posObj' = Append(posObj,
            [config |-> [maxPrice |-> cfg.maxPrice,
                         maxRetries |-> MaxRetriesOf(cfg),
                         stopOnError |-> StopOnErrorOf(cfg)],
             status |-> "active", lastCheck |-> now, attempts |-> 0,
             purchased |-> NoFulfilment, error |-> ""])
    /\ positions' = MapSet(positions, id)
    /\ abRet' = NoAbRet
    /\ UNCHANGED <<now, timers, checkInterval, isRunning, onPurchaseCallbacks,
                   onErrorCallbacks, ticks, notAB>>

CreatePosition(cfg) == CreatePositionWithin(cfg, MaxPositions)

\* onPurchase(callback): the callback either returns or throws when called
OnPurchase(cb) ==
    /\ Len(onPurchaseCallbacks) < MaxCallbacks
    /\ onPurchaseCallbacks' = Append(onPurchaseCallbacks, cb)
    /\ abRet' = NoAbRet
    /\ UNCHANGED <<now, positions, posObj, timers, checkInterval, isRunning,
                   onErrorCallbacks, ticks, notAB>>

\* onError(callback)
OnError(cb) ==
    /\ Len(onErrorCallbacks) < MaxCallbacks
    /\ onErrorCallbacks' = Append(onErrorCallbacks, cb)
    /\ abRet' = NoAbRet
    /\ UNCHANGED <<now, positions, posObj, timers, checkInterval, isRunning,
                   onPurchaseCallbacks, ticks, notAB>>

\* (mutant) start() does not test isRunning
Start_NoGuard(ms) ==
    LET h == CHOOSE x \in 1..(Cardinality(DOMAIN timers) + 1) : x \notin DOMAIN timers
    IN
    /\ abRet' = [NoAbRet EXCEPT !.op = "start"]
    /\ isRunning' = TRUE
    /\ timers' = [x \in (DOMAIN timers) \cup {h} |->
                    IF x = h THEN [every |-> ms] ELSE timers[x]]
    /\ checkInterval' = h
    /\ UNCHANGED <<now, positions, posObj, onPurchaseCallbacks, onErrorCallbacks,
                   ticks, notAB>>

\* start(checkIntervalMs)
Start(ms) ==
    /\ abRet' = [NoAbRet EXCEPT !.op = "start"]
    /\ IF isRunning
       THEN UNCHANGED <<timers, checkInterval, isRunning>>
       ELSE LET h == CHOOSE x \in 1..(Cardinality(DOMAIN timers) + 1) :
                        x \notin DOMAIN timers
            IN
            /\ isRunning' = TRUE
            /\ timers' = [x \in (DOMAIN timers) \cup {h} |->
                            IF x = h THEN [every |-> ms]
                            ELSE timers[x]]
            /\ checkInterval' = h
    /\ UNCHANGED <<now, positions, posObj, onPurchaseCallbacks, onErrorCallbacks,
                   ticks, notAB>>

\* stop()
Stop ==
    /\ abRet' = [NoAbRet EXCEPT !.op = "stop"]
    /\ timers' = [x \in (DOMAIN timers) \ {checkInterval} |-> timers[x]]
    /\ checkInterval' = 0
    /\ isRunning' = FALSE
    /\ UNCHANGED <<now, positions, posObj, onPurchaseCallbacks, onErrorCallbacks,
                   ticks, notAB>>

\* the interval timer h fires (its period has elapsed once more; how long the
\* period is against the time the queries and transfers take is left open):
\* the callback starts checkAllPositions, which runs until its first await
TimerFire(h) ==
    /\ h \in DOMAIN timers
    /\ Running # TickIds
    /\ LET t == CHOOSE x \in TickIds : ticks[x].pc = "free" /\
                    \A y \in TickIds : ticks[y].pc = "free" => x <= y
       IN LoopOn(t, positions, posObj, ticks, 0)
    /\ abRet' = [NoAbRet EXCEPT !.op = "tick"]
    /\ UNCHANGED <<now, positions, timers, checkInterval, isRunning, onPurchaseCallbacks,
                   onErrorCallbacks, notAB>>

\* the callbacks of a list called by forEach until one throws:
\* how many were called, and whether the last one threw
Called(cbs) ==
    IF \E i \in DOMAIN cbs : cbs[i] = "throws"
    THEN [n |-> CHOOSE i \in DOMAIN cbs :
                    cbs[i] = "throws" /\ \A j \in 1..(i - 1) : cbs[j] # "throws",
          threw |-> TRUE]
    ELSE [n |-> Len(cbs), threw |-> FALSE]

\* the catch block of executePurchase, for position object o
CatchBlock(o, message) ==
    LET a == o.attempts + 1 IN
    [o EXCEPT !.attempts = a,
              !.error = message,
              !.status = IF a >= o.config.maxRetries
                         THEN (IF o.config.stopOnError THEN "stopped" ELSE "error")
                         ELSE @]

\* (mutant) a failed listing query counts as a failed execution
CheckListingsCatch_Counts(o) == CatchBlock(o, "query failed")

\* the catch block of checkListings, for position object o: the error is
\* logged and null is returned
CheckListingsCatch(o) == o

\* the listing query of tick t returns (failed: axios threw, which
\* checkListings catches); with a trigger, executePurchase issues the transfer
QueryReturn(t, failed, listings) ==
    LET p == ticks[t].cur
        i == IF failed THEN 0 ELSE FirstMatch(listings, posObj[p].config.maxPrice)
        objs == IF failed THEN [posObj EXCEPT ![p] = CheckListingsCatch(@)] ELSE posObj
    IN
    /\ ticks[t].pc = "query"
    /\ abRet' = [NoAbRet EXCEPT !.op = "query", !.pos = p, !.failed = failed,
                                 !.resp = listings, !.matched = (i # 0)]
    /\ IF i # 0
       THEN /\ ticks' = [ticks EXCEPT ![t] =
                    [@ EXCEPT !.pc = "transfer", !.trigger = TriggerOf(listings[i])]]
            /\ UNCHANGED posObj
       ELSE LoopOn(t, positions, objs, ticks, ticks[t].idx)
    /\ UNCHANGED <<now, positions, timers, checkInterval, isRunning,
                   onPurchaseCallbacks, onErrorCallbacks, notAB>>

\* wallet.transfer of tick t returns with status outcome; executePurchase
\* finishes and checkAllPositions runs on until its next await
TransferReturn(t, outcome) ==
    LET p == ticks[t].cur
        o == posObj[p]
        trig == ticks[t].trigger
        bought == [o EXCEPT !.status = "purchased",
                            !.purchased = [tokenId |-> trig.tokenId,
                                           price |-> ConvertPrice(trig.price, DefaultDecimals),
                                           txHash |-> "0xhash"]]
        pc == Called(onPurchaseCallbacks)
        ec == Called(onErrorCallbacks)
        toCatch == outcome # "confirmed" \/ pc.threw
        o1 == IF outcome = "confirmed"
              THEN (IF pc.threw THEN CatchBlock(bought, "observer threw") ELSE bought)
              ELSE CatchBlock(o, "Transaction failed")
        objs == [posObj EXCEPT ![p] = o1]
        q == MapSet(positions, p)
        escaped == toCatch /\ ec.threw
    IN
    /\ ticks[t].pc = "transfer"
    /\ positions' = q
    /\ abRet' = [NoAbRet EXCEPT !.op = "transfer", !.pos = p, !.outcome = outcome,
                    !.ok = ~toCatch,
                    !.notified = IF outcome = "confirmed" THEN pc.n ELSE 0,
                    !.errNotified = IF toCatch THEN ec.n ELSE 0,
                    !.escaped = escaped]
    /\ IF escaped
       THEN /\ ticks' = [ticks EXCEPT ![t] = FreeTick]
            /\ posObj' = objs
       ELSE LoopOn(t, q, objs, ticks, ticks[t].idx)
    /\ UNCHANGED <<now, timers, checkInterval, isRunning, onPurchaseCallbacks,
                   onErrorCallbacks, notAB>>

\* pausePosition(id)
PausePosition(id) ==
    /\ IF InMap(id) /\ posObj[id].status = "active"
       THEN /\ posObj' = [posObj EXCEPT ![id].status = "stopped"]
            /\ abRet' = [NoAbRet EXCEPT !.op = "pausePosition", !.pos = id, !.ok = TRUE]
       ELSE /\ UNCHANGED posObj
            /\ abRet' = [NoAbRet EXCEPT !.op = "pausePosition", !.pos = id]
    /\ UNCHANGED <<now, positions, timers, checkInterval, isRunning,
                   onPurchaseCallbacks, onErrorCallbacks, ticks, notAB>>

\* (mutant) resumePosition keeps the attempts counted so far
ResumePosition_KeepsAttempts(id) ==
    /\ IF InMap(id) /\ posObj[id].status = "stopped"
       THEN /\ posObj' = [posObj EXCEPT ![id].status = "active"]
            /\ abRet' = [NoAbRet EXCEPT !.op = "resumePosition", !.pos = id, !.ok = TRUE]
       ELSE /\ UNCHANGED posObj
            /\ abRet' = [NoAbRet EXCEPT !.op = "resumePosition", !.pos = id]
    /\ UNCHANGED <<now, positions, timers, checkInterval, isRunning,
                   onPurchaseCallbacks, onErrorCallbacks, ticks, notAB>>

\* resumePosition(id)
ResumePosition(id) ==
    /\ IF InMap(id) /\ posObj[id].status = "stopped"
       THEN /\ posObj' = [posObj EXCEPT ![id].status = "active", ![id].attempts = 0]
            /\ abRet' = [NoAbRet EXCEPT !.op = "resumePosition", !.pos = id, !.ok = TRUE]
       ELSE /\ UNCHANGED posObj
            /\ abRet' = [NoAbRet EXCEPT !.op = "resumePosition", !.pos = id]
    /\ UNCHANGED <<now, positions, timers, checkInterval, isRunning,
                   onPurchaseCallbacks, onErrorCallbacks, ticks, notAB>>

\* removePosition(id)
RemovePosition(id) ==
    /\ IF InMap(id)
       THEN LET j == IndexOf(positions, id) IN
            /\ positions' = Remove(positions, id)
            /\ ticks' = [t \in TickIds |->
                    [ticks[t] EXCEPT !.idx = IterAfterDelete(@, j)]]
            /\ abRet' = [NoAbRet EXCEPT !.op = "removePosition", !.pos = id, !.ok = TRUE]
       ELSE /\ UNCHANGED <<positions, ticks>>
            /\ abRet' = [NoAbRet EXCEPT !.op = "removePosition", !.pos = id]
    /\ UNCHANGED <<now, posObj, timers, checkInterval, isRunning,
                   onPurchaseCallbacks, onErrorCallbacks, notAB>>

\* clearAllPositions()
ClearAllPositions ==
    /\ positions' = <<>>
    /\ ticks' = [t \in TickIds |-> [ticks[t] EXCEPT !.idx = 0]]
    /\ abRet' = NoAbRet
    /\ UNCHANGED <<now, posObj, timers, checkInterval, isRunning,
                   onPurchaseCallbacks, onErrorCallbacks, notAB>>

\* The clock does not advance in the AutoBuyService specification: lastCheck
\* and the ids are the only places where the service reads it.
ABInit ==
    /\ now = 0
    /\ config = [maxRequests |-> 1, timeWindowMs |-> 1]
    /\ RLIdle
    /\ ABIdle
    /\ CacheIdle
    /\ defaultTTL = 0
    /\ RetryIdle
    /\ AlertIdle
    /\ MgrIdle
    /\ NFTIdle
    /\ EEIdle
    /\ TMIdle

ABNext ==
    \/ \E cfg \in AutoBuyConfigs : CreatePosition(cfg)
    \/ \E cb \in {"returns", "throws"} : OnPurchase(cb)
    \/ \E cb \in {"returns", "throws"} : OnError(cb)
    \/ \E ms \in IntervalValues : Start(ms)
    \/ Stop
    \/ \E h \in DOMAIN timers : TimerFire(h)
    \/ \E t \in TickIds, r \in Responses : QueryReturn(t, FALSE, r)
    \/ \E t \in TickIds : QueryReturn(t, TRUE, <<>>)
    \/ \E t \in TickIds, st \in {"confirmed", "failed"} : TransferReturn(t, st)
    \/ \E id \in 1..MaxPositions : PausePosition(id)
    \/ \E id \in 1..MaxPositions : ResumePosition(id)
    \/ \E id \in 1..MaxPositions : RemovePosition(id)
    \/ ClearAllPositions

SpecAB == ABInit /\ [][ABNext]_vars

\* Two positions side by side, without observers: ticks, pauses and resumes
PauseConfigs == {c \in AutoBuyConfigs : DOMAIN c = {"maxPrice", "maxRetries"} /\ c.maxRetries = 2}

PauseNext ==
    \/ \E cfg \in PauseConfigs : CreatePositionWithin(cfg, MaxPausePositions)
    \/ \E ms \in IntervalValues : Start(ms)
    \/ \E h \in DOMAIN timers : TimerFire(h)
    \/ \E t \in TickIds : QueryReturn(t, FALSE, <<ListingEq>>)
    \/ \E t \in TickIds : QueryReturn(t, TRUE, <<>>)
    \/ \E t \in TickIds, st \in {"confirmed", "failed"} : TransferReturn(t, st)
    \/ \E id \in 1..MaxPausePositions : PausePosition(id)
    \/ \E id \in 1..MaxPausePositions : ResumePosition(id)
    \/ \E id \in 1..MaxPausePositions : RemovePosition(id)

SpecPause == ABInit /\ [][PauseNext]_vars

----------------------------------------------------------------------------
(* AutoBuyService: claims *)

\* a step issues the listing query of tick t for position p
QueryIssued(t, p) ==
    /\ ticks'[t].pc = "query" /\ ticks'[t].cur = p
    /\ \/ ticks[t].pc = "free"
       \/ ticks[t].pc = "transfer"
       \/ ticks[t].pc = "query" /\ abRet'.op = "query" /\ ticks'[t].idx # ticks[t].idx

\* a step issues the wallet transfer of tick t for position p
TransferIssued(t, p) ==
    ticks[t].pc = "query" /\ ticks'[t].pc = "transfer" /\ ticks'[t].cur = p

\* the error-exhaustion state
Exhausted(o) ==
    o.status \in {"stopped", "error"} /\ o.attempts >= o.config.maxRetries

\* C2: a purchased position keeps its status, and no listing query or wallet
\* transfer is issued for a position that is purchased or error-exhausted.
C2_TerminalOnce ==
    [][\A p \in DOMAIN posObj :
          /\ posObj[p].status = "purchased" => posObj'[p].status = "purchased"
          /\ (posObj[p].status = "purchased" \/ Exhausted(posObj[p])) =>
                \A t \in TickIds : ~QueryIssued(t, p) /\ ~TransferIssued(t, p)]_vars

\* C3: at most one execution of checkAllPositions is in flight.
C3_TicksSerialized == Cardinality(Running) <= 1

\* C4: a listing query that returns a listing with price <= maxPrice issues
\* exactly one transfer for the position; a transfer that returns confirmed
\* leaves the position purchased, with the fulfilment of the trigger recorded
\* and every registered purchase observer called.
C4_TriggerThenPurchase ==
    [][/\ abRet'.op = "query" =>
            LET p == abRet'.pos
                hit == \E i \in DOMAIN abRet'.resp :
                          DecLeq(ConvertPrice(abRet'.resp[i].base_price,
                                              ListingDecimals(abRet'.resp[i])),
                                 posObj[p].config.maxPrice)
            IN Cardinality({t \in TickIds : TransferIssued(t, p)})
                    = (IF hit THEN 1 ELSE 0)
       /\ (abRet'.op = "transfer" /\ abRet'.outcome = "confirmed") =>
            LET p == abRet'.pos IN
            /\ posObj'[p].status = "purchased"
            /\ \E t \in TickIds :
                  /\ ticks[t].pc = "transfer" /\ ticks[t].cur = p
                  /\ posObj'[p].purchased.tokenId = ticks[t].trigger.tokenId
                  /\ posObj'[p].purchased.txHash # ""
            /\ abRet'.notified = Len(onPurchaseCallbacks)]_vars

\* C5: each failed execution of an active position adds 1 to attempts; the
\* position stays active below maxRetries failures and becomes stopped
\* (stopOnError) or error at maxRetries; attempts never pass maxRetries and no
\* listing query or transfer is issued for an exhausted position.
C5_ErrorExhaustion ==
    [][/\ (abRet'.op = "transfer" /\ abRet'.outcome = "failed") =>
            LET o == posObj[abRet'.pos]
                o2 == posObj'[abRet'.pos]
                n == o.config.maxRetries
            IN
            /\ o2.attempts = o.attempts + 1
            /\ o2.attempts <= n
            /\ o2.attempts < n => o2.status = o.status
            /\ o2.attempts = n =>
                  o2.status = (IF o.config.stopOnError THEN "stopped" ELSE "error")
       /\ \A p \in DOMAIN posObj : Exhausted(posObj[p]) =>
            \A t \in TickIds : ~QueryIssued(t, p) /\ ~TransferIssued(t, p)]_vars

C18_CallbackIsolation == ~abRet.escaped

\* C19: a transfer that fails adds 1 to attempts, stores the message on the
\* position and calls every registered error observer; observers are only
\* ever added to the list.
C19_FailuresNeverSwallowed ==
    [][/\ (abRet'.op = "transfer" /\ abRet'.outcome = "failed") =>
            LET p == abRet'.pos IN
            /\ posObj'[p].attempts = posObj[p].attempts + 1
            /\ posObj'[p].error = "Transaction failed"
            /\ abRet'.errNotified = Len(onErrorCallbacks)
       /\ Len(onErrorCallbacks') >= Len(onErrorCallbacks)
       /\ SubSeq(onErrorCallbacks', 1, Len(onErrorCallbacks)) = onErrorCallbacks]_vars

\* C20: a position that is not in the Map is not put back by a tick.
C20_RemovalSafety ==
    [][\A p \in DOMAIN posObj :
          (~InSeq(positions, p) /\ abRet'.op \in {"query", "transfer"})
              => ~InSeq(positions', p)]_vars

----------------------------------------------------------------------------
(* Cache: pure parts *)

CacheKeys == {"k1", "k2"}
Values == {"v1", "v2"}
TtlSeconds == {0, 1}              \* values of the ttl argument, in seconds
DefaultTTLSeconds == {2}          \* values of defaultTTLSeconds
ClockSteps == {1000}               \* what Date.now() advances by in one step, ms

MsPerSecond == 1000

\* the optional ttl argument: omitted, or a number of seconds
TtlArgs == {<<>>} \cup {[ttl |-> n] : n \in TtlSeconds}

\* ttl ? ttl * 1000 : this.defaultTTL
TtlMs(arg, dflt) ==
    IF "ttl" \in DOMAIN arg /\ arg.ttl # 0 THEN arg.ttl * MsPerSecond ELSE dflt

\* the entry written by set(key, value, ttl) at time t
\*   arg   history: the ttl argument the entry was written with
NewEntry(value, arg, t, dflt) ==
    [value |-> value, timestamp |-> t, expiresAt |-> t + TtlMs(arg, dflt),
     arg |-> arg]

\* this.store.set(key, entry)
StoreSet(st, key, entry) ==
    [k \in (DOMAIN st) \cup {key} |-> IF k = key THEN entry ELSE st[k]]

\* this.store.delete(key)
StoreDelete(st, key) == [k \in (DOMAIN st) \ {key} |-> st[k]]

\* (mutant) an entry counts as expired at the instant expiresAt
Expired_AtExpiresAt(entry, t) == t >= entry.expiresAt

\* Date.now() > entry.expiresAt
Expired(entry, t) == t > entry.expiresAt

\* get(key) and has(key) find an entry and it has not expired
Fresh(st, key, t) == key \in DOMAIN st /\ ~Expired(st[key], t)

\* get(key): the value returned
GetResult(st, key, t) == IF Fresh(st, key, t) THEN st[key].value ELSE NullValue

\* get(key) and has(key): the store they leave (an expired entry is deleted)
StoreAfterLookup(st, key, t) ==
    IF key \in DOMAIN st /\ Expired(st[key], t) THEN StoreDelete(st, key) ELSE st

\* cleanup(): every expired entry is deleted
Cleanup(st, t) == [k \in {x \in DOMAIN st : ~Expired(st[x], t)} |-> st[k]]

\* a call on the cache other than the steps of caller c: the calls of
\* getOrSet in flight are no longer alone
Disturb(g, c) ==
    [x \in GosCallers |-> IF x = c THEN g[x] ELSE [g[x] EXCEPT !.alone = FALSE]]

----------------------------------------------------------------------------
(* Cache: operations *)

\* set(key, value, ttl)
CacheSet(key, value, arg) ==
    /\ store' = StoreSet(store, key, NewEntry(value, arg, now, defaultTTL))
    /\ gos' = Disturb(gos, "")
    /\ cacheRet' = [NoCacheRet EXCEPT !.op = "set", !.key = key, !.value = value]
    /\ UNCHANGED <<now, defaultTTL, notCache>>

\* get(key)
CacheGet(key) ==
    /\ store' = StoreAfterLookup(store, key, now)
    /\ gos' = Disturb(gos, "")
    /\ cacheRet' = [NoCacheRet EXCEPT !.op = "get", !.key = key,
                                      !.value = GetResult(store, key, now)]
    /\ UNCHANGED <<now, defaultTTL, notCache>>

\* has(key)
CacheHas(key) ==
    /\ store' = StoreAfterLookup(store, key, now)
    /\ gos' = Disturb(gos, "")
    /\ cacheRet' = [NoCacheRet EXCEPT !.op = "has", !.key = key,
                                      !.ok = Fresh(store, key, now)]
    /\ UNCHANGED <<now, defaultTTL, notCache>>

\* delete(key)
CacheDelete(key) ==
    /\ store' = StoreDelete(store, key)
    /\ gos' = Disturb(gos, "")
    /\ cacheRet' = [NoCacheRet EXCEPT !.op = "delete", !.key = key,
                                      !.ok = (key \in DOMAIN store)]
    /\ UNCHANGED <<now, defaultTTL, notCache>>

\* clear()
CacheClear ==
    /\ store' = <<>>
    /\ gos' = Disturb(gos, "")
    /\ cacheRet' = [NoCacheRet EXCEPT !.op = "clear"]
    /\ UNCHANGED <<now, defaultTTL, notCache>>

\* size()
CacheSize ==
    /\ store' = Cleanup(store, now)
    /\ gos' = Disturb(gos, "")
    /\ cacheRet' = [NoCacheRet EXCEPT !.op = "size",
                                      !.n = Cardinality(DOMAIN Cleanup(store, now))]
    /\ UNCHANGED <<now, defaultTTL, notCache>>

\* getOrSet(key, factory, ttl) by caller c, up to its return or to await factory()
GetOrSetCall(c, key, arg) ==
    LET cached == GetResult(store, key, now)
        others == Disturb(gos, c)
    IN
    /\ gos[c].pc = "idle"
    /\ store' = StoreAfterLookup(store, key, now)
    /\ IF cached # NullValue
       THEN /\ gos' = others
            /\ cacheRet' = [NoCacheRet EXCEPT !.op = "getOrSet", !.caller = c, !.key = key,
                                !.value = cached, !.hit = TRUE]
       ELSE /\ gos' = [others EXCEPT ![c] =
                        [pc |-> "awaiting", key |-> key, arg |-> arg,
                         alone |-> \A x \in GosCallers : gos[x].pc = "idle"]]
            /\ cacheRet' = [NoCacheRet EXCEPT !.op = "getOrSet", !.caller = c, !.key = key,
                                !.factory = TRUE]
    /\ UNCHANGED <<now, defaultTTL, notCache>>

\* (mutant) the value of the factory is stored only when the key has no
\* unexpired entry yet
FactoryResolve_KeepsFirst(c, value) ==
    /\ gos[c].pc = "awaiting"
    /\ store' = IF Fresh(store, gos[c].key, now) THEN store
                ELSE StoreSet(store, gos[c].key,
                              NewEntry(value, gos[c].arg, now, defaultTTL))
    /\ gos' = [Disturb(gos, c) EXCEPT ![c] = IdleGos]
    /\ cacheRet' = [NoCacheRet EXCEPT !.op = "resolve", !.caller = c,
                        !.key = gos[c].key, !.value = value]
    /\ UNCHANGED <<now, defaultTTL, notCache>>

\* the factory of caller c resolves with value: set(key, value, ttl); return value
FactoryResolve(c, value) ==
    /\ gos[c].pc = "awaiting"
    /\ store' = StoreSet(store, gos[c].key,
                         NewEntry(value, gos[c].arg, now, defaultTTL))
    /\ gos' = [Disturb(gos, c) EXCEPT ![c] = IdleGos]
    /\ cacheRet' = [NoCacheRet EXCEPT !.op = "resolve", !.caller = c,
                        !.key = gos[c].key, !.value = value]
    /\ UNCHANGED <<now, defaultTTL, notCache>>

\* the factory of caller c rejects: the await throws out of getOrSet
FactoryReject(c) ==
    /\ gos[c].pc = "awaiting"
    /\ gos' = [Disturb(gos, c) EXCEPT ![c] = IdleGos]
    /\ cacheRet' = [NoCacheRet EXCEPT !.op = "reject", !.caller = c,
                        !.key = gos[c].key, !.threw = TRUE]
    /\ UNCHANGED <<now, store, defaultTTL, notCache>>

\* Date.now() advances
CacheTick(d) ==
    /\ now < MaxCacheTicks * SetMax(ClockSteps)
    /\ now' = now + d
    /\ cacheRet' = NoCacheRet
    /\ UNCHANGED <<store, defaultTTL, gos, notCache>>

\* new Cache(defaultTTLSeconds)
CacheInit ==
    /\ now = 0
    /\ config = [maxRequests |-> 1, timeWindowMs |-> 1]
    /\ RLIdle
    /\ ABIdle
    /\ CacheIdle
    /\ defaultTTL \in {s * MsPerSecond : s \in DefaultTTLSeconds}
    /\ RetryIdle
    /\ AlertIdle
    /\ MgrIdle
    /\ NFTIdle
    /\ EEIdle
    /\ TMIdle

CacheNext ==
    \/ \E k \in CacheKeys, v \in Values, a \in TtlArgs : CacheSet(k, v, a)
    \/ \E k \in CacheKeys : CacheGet(k)
    \/ \E k \in CacheKeys : CacheHas(k)
    \/ \E k \in CacheKeys : CacheDelete(k)
    \/ CacheClear
    \/ CacheSize
    \/ \E c \in GosCallers, k \in CacheKeys, a \in TtlArgs : GetOrSetCall(c, k, a)
    \/ \E c \in GosCallers, v \in Values : FactoryResolve(c, v)
    \/ \E c \in GosCallers : FactoryReject(c)
    \/ \E d \in ClockSteps : CacheTick(d)

SpecCache == CacheInit /\ [][CacheNext]_vars

----------------------------------------------------------------------------
(* Cache: claims *)

\* the lifetime a caller asks for, in ms: ttl seconds when ttl is given,
\* the default when it is omitted
RequestedTtlMs(arg, dflt) ==
    IF "ttl" \in DOMAIN arg THEN arg.ttl * MsPerSecond ELSE dflt

\* C10: getOrSet with no other call on the cache while it runs.  On a hit it
\* returns the cached value, invokes no factory and leaves the store alone; on
\* a miss it invokes the factory once; when the factory resolves with v the key
\* holds v with expiry now + the requested TTL and v is returned; when the
\* factory rejects the call rejects and the key has no entry.
C10_GetOrSetSingleCaller ==
    [][\A c \in GosCallers :
          /\ (cacheRet'.op = "getOrSet" /\ cacheRet'.caller = c) =>
                LET k == cacheRet'.key IN
                IF Fresh(store, k, now)
                THEN /\ cacheRet'.hit /\ ~cacheRet'.factory
                     /\ cacheRet'.value = store[k].value
                     /\ gos'[c].pc = "idle"
                     /\ store' = store
                ELSE /\ ~cacheRet'.hit /\ cacheRet'.factory
                     /\ gos'[c].pc = "awaiting"
                     /\ k \notin DOMAIN store'
          /\ (cacheRet'.op = "resolve" /\ cacheRet'.caller = c /\ gos[c].alone) =>
                LET k == gos[c].key IN
                /\ k \in DOMAIN store'
                /\ store'[k].value = cacheRet'.value
                /\ store'[k].expiresAt = now + RequestedTtlMs(gos[c].arg, defaultTTL)
                /\ gos'[c].pc = "idle"
          /\ (cacheRet'.op = "reject" /\ cacheRet'.caller = c /\ gos[c].alone) =>
                /\ cacheRet'.threw
                /\ gos[c].key \notin DOMAIN store'
                /\ gos'[c].pc = "idle"]_vars

\* C11: no two calls of getOrSet wait on a factory for the same key at the
\* same time (a miss of a key runs the factory at most once).
C11_FactoryOncePerMiss ==
    \A c1, c2 \in GosCallers :
        (c1 # c2 /\ gos[c1].pc = "awaiting" /\ gos[c2].pc = "awaiting")
            => gos[c1].key # gos[c2].key

\* C12: get(k) at the instant of the set(k, v, ttl) that wrote the entry of k
\* returns v; get(k) and has(k) made more than ttl seconds after that set
\* return null and false.
C12_SetGetExpiry ==
    [][\A k \in DOMAIN store :
          LET e == store[k] IN
          /\ (cacheRet'.op = "get" /\ cacheRet'.key = k /\ now = e.timestamp)
                => cacheRet'.value = e.value
          /\ ("ttl" \in DOMAIN e.arg /\ now - e.timestamp > e.arg.ttl * MsPerSecond) =>
                /\ (cacheRet'.op = "get" /\ cacheRet'.key = k)
                        => cacheRet'.value = NullValue
                /\ (cacheRet'.op = "has" /\ cacheRet'.key = k)
                        => ~cacheRet'.ok]_vars

\* C26 (set expiry): the entry written by set(key, value, ttl) expires at
\* now + ttl seconds whenever a ttl was supplied, 0 included, and at
\* now + defaultTTL only when the ttl was omitted.
C26_SetExpiry ==
    cacheRet.op = "set" =>
        LET e == store[cacheRet.key] IN
        /\ e.timestamp = now
        /\ e.expiresAt = now + RequestedTtlMs(e.arg, defaultTTL)

\* C27 (lazy expiry): get and has report an entry exactly while
\* now <= expiresAt; size() returns the number of unexpired entries; an entry
\* leaves the store on account of its expiry only in a get / has on its own key
\* or in a size() made after it expired, and the first such call removes it.
C27_LazyExpiry ==
    [][ LET op == cacheRet'.op
            key == cacheRet'.key
            live(k) == k \in DOMAIN store /\ now <= store[k].expiresAt
        IN
        CASE op = "get" ->
                /\ cacheRet'.value = IF live(key) THEN store[key].value ELSE NullValue
                /\ store' = IF live(key) THEN store ELSE StoreDelete(store, key)
          [] op = "has" ->
                /\ cacheRet'.ok <=> live(key)
                /\ store' = IF live(key) THEN store ELSE StoreDelete(store, key)
          [] op = "getOrSet" ->
                /\ cacheRet'.hit <=> live(key)
                /\ store' = IF live(key) THEN store ELSE StoreDelete(store, key)
          [] op = "size" ->
                /\ cacheRet'.n = Cardinality({k \in DOMAIN store : live(k)})
                /\ DOMAIN store' = {k \in DOMAIN store : live(k)}
                /\ \A k \in DOMAIN store' : store'[k] = store[k]
          [] op \in {"delete", "clear"} -> TRUE
          [] OTHER -> DOMAIN store \subseteq DOMAIN store'
      ]_vars

\* has(k) found nothing to report while the expired entry of another key is
\* still in the store
C27_Witness ==
    /\ cacheRet.op = "has" /\ ~cacheRet.ok /\ cacheRet.key \notin DOMAIN store
    /\ \E k \in DOMAIN store : now > store[k].expiresAt

\* C28 (getOrSet stored value): when a getOrSet of a key completes, by a hit or
\* by its factory resolving, the store holds for the key the value the call
\* returns, also when other calls for the key are in flight; and until the next
\* completion the entry is only changed by set, delete, clear or its expiry.
C28_StoredValueConsistency ==
    [][ LET op == cacheRet'.op
            key == cacheRet'.key
            completes == op = "resolve" \/ (op = "getOrSet" /\ cacheRet'.hit)
        IN
        /\ completes =>
              /\ key \in DOMAIN store'
              /\ store'[key].value = cacheRet'.value
        /\ \A k \in DOMAIN store :
              (/\ now <= store[k].expiresAt
               /\ op \notin {"delete", "clear"}
               /\ ~(op \in {"set", "resolve"} /\ key = k))
              => (k \in DOMAIN store' /\ store'[k] = store[k])
      ]_vars

\* a getOrSet has completed by its factory while the factory of another call
\* for the same key is still running, and the store holds what it returned
C28_Witness ==
    /\ cacheRet.op = "resolve"
    /\ \E c \in GosCallers :
          /\ c # cacheRet.caller
          /\ gos[c].pc = "awaiting" /\ gos[c].key = cacheRet.key
    /\ store[cacheRet.key].value = cacheRet.value

----------------------------------------------------------------------------
(* withRetry: pure parts *)

Min(a, b) == IF a <= b THEN a ELSE b

\* inputs: the options given to withRetry (every field is optional) and the
\* ways an invocation of fn can fail
RetryCounts == {0, 1, 2}          \* values of maxRetries
InitialDelays == {0, 1, 3}        \* values of initialDelayMs
MaxDelays == {2}                  \* values of maxDelayMs
Multipliers == {0, 1, 3}          \* values of backoffMultiplier
ErrorKinds == {"429", "ETIMEDOUT", "400"}

\* shouldRetry: undefined  /  error => false
ShouldRetryValues ==
    {[defined |-> FALSE, retryable |-> {}], [defined |-> TRUE, retryable |-> {}]}

RetryOptions ==
    {Merge(Merge(Merge(Merge(mr, idl), mdl), bm), sr) :
        mr \in {<<>>} \cup {[maxRetries |-> n] : n \in RetryCounts},
        idl \in {<<>>} \cup {[initialDelayMs |-> n] : n \in InitialDelays},
        mdl \in {<<>>} \cup {[maxDelayMs |-> n] : n \in MaxDelays},
        bm \in {<<>>} \cup {[backoffMultiplier |-> n] : n \in Multipliers},
        sr \in {<<>>} \cup {[shouldRetry |-> f] : f \in ShouldRetryValues}}

\* opts.shouldRetry?.(error) ?? true
ShouldRetry(o, error) ==
    IF o.shouldRetry.defined THEN error.kind \in o.shouldRetry.retryable ELSE TRUE

\* the loop condition: attempt <= opts.maxRetries
LoopGuard(a, o) == a <= o.maxRetries

\* (mutant) the last attempt is not told apart
LastAttempt_Never(a, o) == FALSE

\* attempt === opts.maxRetries
LastAttempt(a, o) == a = o.maxRetries

\* (mutant) shouldRetry is not asked
AfterFailure_RetryAll(o, a, error) ==
    IF LastAttempt(a, o) THEN "break" ELSE "sleep"

\* (mutant) a failure is never retried
AfterFailure_NoRetry(o, a, error) ==
    IF LastAttempt(a, o) THEN "break" ELSE "throw"

\* the catch block: leave the loop, rethrow, or sleep and go round again
AfterFailure(o, a, error) ==
    IF LastAttempt(a, o) THEN "break"
    ELSE IF ~ShouldRetry(o, error) THEN "throw"
    ELSE "sleep"

\* Math.min(delay * opts.backoffMultiplier, opts.maxDelayMs)
NextDelay(d, o) == Min(d * o.backoffMultiplier, o.maxDelayMs)

----------------------------------------------------------------------------
(* withRetry: steps *)

\* withRetry(fn, options), up to the first await fn()
WithRetry(options) ==
    LET o == Merge(DEFAULT_RETRY_OPTIONS, options) IN
    /\ rpc = "idle"
    /\ opts' = o
    /\ delay' = o.initialDelayMs
    /\ attempt' = 0
    /\ IF LoopGuard(0, o)
       THEN rpc' = "calling"
       ELSE rpc' = "rejected"
    /\ UNCHANGED <<now, lastError, invocations, sleeps, settled, notRetry>>

\* fn() resolves: return await fn()
FnResolve ==
    LET value == [kind |-> "ok", id |-> Len(invocations) + 1] IN
    /\ rpc = "calling"
    /\ invocations' = Append(invocations, value)
    /\ rpc' = "resolved"
    /\ settled' = value
    /\ UNCHANGED <<now, opts, attempt, delay, lastError, sleeps, notRetry>>

\* fn() rejects with an error of the given kind: the catch block
FnReject(kind) ==
    LET error == [kind |-> kind, id |-> Len(invocations) + 1]
        todo == AfterFailure(opts, attempt, error)
    IN
    /\ rpc = "calling"
    /\ invocations' = Append(invocations, error)
    /\ lastError' = error
    /\ IF todo = "sleep"
       THEN /\ rpc' = "sleeping"
            /\ sleeps' = Append(sleeps, delay)
            /\ UNCHANGED settled
       ELSE /\ rpc' = "rejected"
            /\ settled' = error
            /\ UNCHANGED sleeps
    /\ UNCHANGED <<now, opts, attempt, delay, notRetry>>

\* the timer of sleep(delay) fires: the delay grows and the loop goes round
SleepDone ==
    /\ rpc = "sleeping"
    /\ delay' = NextDelay(delay, opts)
    /\ attempt' = attempt + 1
    /\ IF LoopGuard(attempt + 1, opts)
       THEN /\ rpc' = "calling"
            /\ UNCHANGED settled
       ELSE /\ rpc' = "rejected"
            /\ settled' = lastError
    /\ UNCHANGED <<now, opts, lastError, invocations, sleeps, notRetry>>

RetryInit ==
    /\ now = 0
    /\ config = [maxRequests |-> 1, timeWindowMs |-> 1]
    /\ RLIdle
    /\ ABIdle
    /\ CacheIdle
    /\ defaultTTL = 0
    /\ RetryIdle
    /\ AlertIdle
    /\ MgrIdle
    /\ NFTIdle
    /\ EEIdle
    /\ TMIdle

RetryNext ==
    \/ \E options \in RetryOptions : WithRetry(options)
    \/ FnResolve
    \/ \E kind \in ErrorKinds : FnReject(kind)
    \/ SleepDone

SpecRetry == RetryInit /\ [][RetryNext]_vars

\* fn settles and the timer of a sleep fires
SpecRetryLive == RetryInit /\ [][RetryNext]_vars /\ WF_vars(RetryNext)

\* withRetry called with any maxRetries, negative ones included
NegativeRetryCounts == {-1}

AnyRetryOptions ==
    RetryOptions \cup {[maxRetries |-> n] : n \in NegativeRetryCounts}

RetryAnyNext ==
    \/ \E options \in AnyRetryOptions : WithRetry(options)
    \/ FnResolve
    \/ \E kind \in ErrorKinds : FnReject(kind)
    \/ SleepDone

SpecRetryAny == RetryInit /\ [][RetryAnyNext]_vars

----------------------------------------------------------------------------
(* withRetry: claims *)

\* the invocations of fn that failed, by number
Failures == {i \in DOMAIN invocations : invocations[i].kind # "ok"}

\* every failure so far was one that shouldRetry accepts
AllTransient == \A i \in Failures : ShouldRetry(opts, invocations[i])

\* C13: an invocation that fails with an error shouldRetry rejects is the last
\* one: withRetry rejects with that very error and does not sleep after it (a
\* first failure of that kind: one invocation, no sleep), whatever maxRetries.
C13_FailFast ==
    \A i \in Failures :
        ~ShouldRetry(opts, invocations[i]) =>
            /\ i = Len(invocations)
            /\ rpc = "rejected"
            /\ settled = invocations[i]
            /\ Len(sleeps) = i - 1

C13_Witness ==
    /\ rpc = "rejected" /\ opts.maxRetries = 3
    /\ Len(invocations) = 1 /\ ~ShouldRetry(opts, invocations[1])
    /\ sleeps = <<>>

\* C14: while fn has failed k <= maxRetries times, each time with a retryable
\* error, withRetry goes on (one sleep after every failure); when the next
\* invocation succeeds it resolves with that result, after k + 1 invocations
\* and k sleeps.
C14_SuccessAfterTransient ==
    LET n == Len(invocations) IN
    (rpc # "idle" /\ AllTransient /\ Cardinality(Failures) <= opts.maxRetries) =>
        IF n > 0 /\ invocations[n].kind = "ok"
        THEN /\ rpc = "resolved"
             /\ settled = invocations[n]
             /\ Failures = 1..(n - 1)
             /\ Len(sleeps) = n - 1
        ELSE /\ rpc \in {"calling", "sleeping"}
             /\ Len(sleeps) = n

C14_Witness ==
    /\ rpc = "resolved" /\ opts.maxRetries = 2
    /\ Len(invocations) = 3 /\ Len(sleeps) = 2

\* C15: the sleeps of one call never shrink and none is longer than maxDelayMs.
C15_BackoffSequence ==
    \A i \in DOMAIN sleeps :
        /\ sleeps[i] <= opts.maxDelayMs
        /\ i > 1 => sleeps[i] >= sleeps[i - 1]

\* C16: when every invocation fails with a retryable error, withRetry makes
\* maxRetries + 1 invocations and maxRetries sleeps, then rejects at once with
\* the error of the last invocation; and every call of withRetry settles.
C16_Exhaustion ==
    /\ [](LET n == Len(invocations) IN
          (rpc # "idle" /\ AllTransient /\ Failures = 1..n) =>
              /\ n <= opts.maxRetries + 1
              /\ (rpc = "rejected") <=> (n = opts.maxRetries + 1)
              /\ rpc = "rejected" =>
                    /\ Len(sleeps) = opts.maxRetries
                    /\ settled = invocations[n])
    /\ (rpc \in {"calling", "sleeping"}) ~> (rpc \in {"resolved", "rejected"})

C16_Witness ==
    /\ rpc = "rejected" /\ opts.maxRetries = 2
    /\ Len(invocations) = 3 /\ AllTransient /\ Len(sleeps) = 2

\* C36 (always attempts): when withRetry has settled, fn was invoked at least
\* once, and a rejection carries an error that an invocation of fn threw.
C36_AlwaysAttempts ==
    rpc \in {"resolved", "rejected"} =>
        /\ Len(invocations) >= 1
        /\ rpc = "rejected" => \E i \in Failures : invocations[i] = settled

----------------------------------------------------------------------------
(* AlertService: pure parts *)

\* inputs.  Prices are decimal strings, kept as mantissa and exponent:
\* "1.9", "2" and "2.1" against the target "2.0"
AlertCollections == {"A"}
AlertTargets == {[m |-> 20, e |-> -1]}
AlertPrices == {[m |-> 19, e |-> -1], [m |-> 2, e |-> 0], [m |-> 21, e |-> -1]}
AlertConditions == {"above", "below"}
AlertCallbacks == {"returns", "throws"}    \* what a callback does when called
AlertIds == 1..MaxAlerts

\* currentPrices: a Map from collection address to price
PriceMaps == UNION {[S -> AlertPrices] : S \in SUBSET AlertCollections}

\* this.alerts.get(alertId) finds an alert
HasAlert(as, id) == \E i \in DOMAIN as : as[i].id = id

\* this.callbacks.get(alertId) || []
CallbacksOf(cbs, id) == IF id \in DOMAIN cbs THEN cbs[id] ELSE <<>>

\* getActiveAlerts()
GetActiveAlerts(as) == SelectSeq(as, LAMBDA a : a.active)

\* (mutant) the boundary is excluded
ShouldTrigger_Strict(alert, price) ==
    \/ alert.condition = "above" /\ ~DecLeq(price, alert.targetPrice)
    \/ alert.condition = "below" /\ ~DecLeq(alert.targetPrice, price)

\* shouldTrigger: current >= target for above, current <= target for below
ShouldTrigger(alert, price) ==
    \/ alert.condition = "above" /\ DecLeq(alert.targetPrice, price)
    \/ alert.condition = "below" /\ DecLeq(price, alert.targetPrice)

\* the loop of checkAlerts over the active alerts act, from the i-th on, with
\* acc = what was pushed and called so far; it ends when a callback throws
RECURSIVE CheckFrom(_, _, _, _, _)
CheckFrom(act, i, cbs, prices, acc) ==
    IF i > Len(act) THEN acc
    ELSE LET alert == act[i] IN
         IF alert.collectionAddress \notin DOMAIN prices
         THEN CheckFrom(act, i + 1, cbs, prices, acc)
         ELSE IF ~ShouldTrigger(alert, prices[alert.collectionAddress])
         THEN CheckFrom(act, i + 1, cbs, prices, acc)
         ELSE LET list == CallbacksOf(cbs, alert.id)
                  c == Called(list)
                  acc2 == [triggered |-> Append(acc.triggered, alert.id),
                           invoked |-> acc.invoked \o
                                [j \in 1..c.n |-> <<alert.id, list[j]>>],
                           threw |-> c.threw]
              IN IF c.threw THEN acc2
                 ELSE CheckFrom(act, i + 1, cbs, prices, acc2)

\* checkAlerts(currentPrices): what it pushed, what it called, whether it threw
CheckAlertsResult(as, cbs, prices) ==
    CheckFrom(GetActiveAlerts(as), 1, cbs, prices,
              [triggered |-> <<>>, invoked |-> <<>>, threw |-> FALSE])

\* callbacks.splice(callbacks.indexOf(callback), 1)
RemoveFirst(list, cb) ==
    IF \E i \in DOMAIN list : list[i] = cb
    THEN LET k == CHOOSE i \in DOMAIN list :
                    list[i] = cb /\ \A j \in 1..(i - 1) : list[j] # cb
         IN [j \in 1..(Len(list) - 1) |-> IF j < k THEN list[j] ELSE list[j + 1]]
    ELSE list

----------------------------------------------------------------------------
(* AlertService: operations *)

\* createAlert(collectionAddress, targetPrice, condition)
CreateAlert(coll, target, cond) ==
    LET id == alertCount + 1 IN
    /\ alertCount < MaxAlerts
    /\ alertCount' = id
    /\ alerts' = Append(alerts,
            [id |-> id, collectionAddress |-> coll, targetPrice |-> target,
             condition |-> cond, active |-> TRUE, createdAt |-> now])
    /\ alertRet' = [NoAlertRet EXCEPT !.op = "createAlert", !.id = id]
    /\ UNCHANGED <<now, callbacks, monitorInterval, alertTimers, monitorTicks, notAlert>>

\* removeAlert(alertId)
RemoveAlert(id) ==
    /\ alerts' = SelectSeq(alerts, LAMBDA a : a.id # id)
    /\ alertRet' = [NoAlertRet EXCEPT !.op = "removeAlert", !.id = id,
                                      !.ok = HasAlert(alerts, id)]
    /\ UNCHANGED <<now, callbacks, monitorInterval, alertTimers, alertCount,
                   monitorTicks, notAlert>>

\* toggleAlert(alertId, active)
ToggleAlert(id, active) ==
    /\ alerts' = [i \in DOMAIN alerts |->
                    IF alerts[i].id = id THEN [alerts[i] EXCEPT !.active = active]
                    ELSE alerts[i]]
    /\ alertRet' = [NoAlertRet EXCEPT !.op = "toggleAlert", !.id = id,
                                      !.ok = HasAlert(alerts, id)]
    /\ UNCHANGED <<now, callbacks, monitorInterval, alertTimers, alertCount,
                   monitorTicks, notAlert>>

\* onAlertTriggered(alertId, callback)
OnAlertTriggered(id, cb) ==
    /\ Len(CallbacksOf(callbacks, id)) < MaxAlertCallbacks
    /\ callbacks' = [k \in (DOMAIN callbacks) \cup {id} |->
                        IF k = id THEN Append(CallbacksOf(callbacks, id), cb)
                        ELSE callbacks[k]]
    /\ alertRet' = [NoAlertRet EXCEPT !.op = "onAlertTriggered", !.id = id]
    /\ UNCHANGED <<now, alerts, monitorInterval, alertTimers, alertCount,
                   monitorTicks, notAlert>>

\* removeCallback(alertId, callback)
RemoveCallback(id, cb) ==
    /\ callbacks' = [k \in DOMAIN callbacks |->
                        IF k = id THEN RemoveFirst(callbacks[k], cb) ELSE callbacks[k]]
    /\ alertRet' = [NoAlertRet EXCEPT !.op = "removeCallback", !.id = id]
    /\ UNCHANGED <<now, alerts, monitorInterval, alertTimers, alertCount,
                   monitorTicks, notAlert>>

\* checkAlerts(currentPrices), called directly
CheckAlerts(prices) ==
    LET r == CheckAlertsResult(alerts, callbacks, prices) IN
    /\ alertRet' = [NoAlertRet EXCEPT !.op = "checkAlerts", !.prices = prices,
                        !.triggered = r.triggered, !.invoked = r.invoked,
                        !.threw = r.threw]
    /\ UNCHANGED <<now, alerts, callbacks, monitorInterval, alertTimers, alertCount,
                   monitorTicks, notAlert>>

\* startMonitoring(getPrices, intervalMs)
StartMonitoring ==
    /\ alertRet' = [NoAlertRet EXCEPT !.op = "startMonitoring"]
    /\ IF monitorInterval # 0
       THEN UNCHANGED <<monitorInterval, alertTimers>>
       ELSE LET h == CHOOSE x \in 1..(Cardinality(alertTimers) + 1) :
                        x \notin alertTimers
            IN /\ alertTimers' = alertTimers \cup {h}
               /\ monitorInterval' = h
    /\ UNCHANGED <<now, alerts, callbacks, alertCount, monitorTicks, notAlert>>

\* (mutant) the handle is forgotten but the timer is left running
StopMonitoring_NoClear ==
    /\ alertRet' = [NoAlertRet EXCEPT !.op = "stopMonitoring"]
    /\ monitorInterval' = 0
    /\ UNCHANGED <<now, alerts, callbacks, alertTimers, alertCount, monitorTicks,
                   notAlert>>

\* stopMonitoring()
StopMonitoring ==
    /\ alertRet' = [NoAlertRet EXCEPT !.op = "stopMonitoring"]
    /\ alertTimers' = alertTimers \ {monitorInterval}
    /\ monitorInterval' = 0
    /\ UNCHANGED <<now, alerts, callbacks, alertCount, monitorTicks, notAlert>>

\* the interval timer h fires: the callback calls getPrices() and awaits it
MonitorFire(h) ==
    /\ h \in alertTimers
    /\ monitorTicks < MaxMonitorTicks
    /\ monitorTicks' = monitorTicks + 1
    /\ alertRet' = [NoAlertRet EXCEPT !.op = "tick"]
    /\ UNCHANGED <<now, alerts, callbacks, monitorInterval, alertTimers, alertCount,
                   notAlert>>

\* getPrices() of a timer callback settles (failed: it rejected); the callback
\* runs checkAlerts and catches what it throws
PricesReturn(failed, prices) ==
    LET r == CheckAlertsResult(alerts, callbacks, prices) IN
    /\ monitorTicks > 0
    /\ monitorTicks' = monitorTicks - 1
    /\ alertRet' = IF failed
                   THEN [NoAlertRet EXCEPT !.op = "monitorFailed"]
                   ELSE [NoAlertRet EXCEPT !.op = "monitorCheck", !.prices = prices,
                            !.triggered = r.triggered, !.invoked = r.invoked,
                            !.threw = r.threw]
    /\ UNCHANGED <<now, alerts, callbacks, monitorInterval, alertTimers, alertCount,
                   notAlert>>

\* clearAllAlerts()
ClearAllAlerts ==
    /\ alerts' = <<>>
    /\ callbacks' = <<>>
    /\ alertRet' = [NoAlertRet EXCEPT !.op = "clearAllAlerts"]
    /\ UNCHANGED <<now, monitorInterval, alertTimers, alertCount, monitorTicks,
                   notAlert>>

AlertInit ==
    /\ now = 0
    /\ config = [maxRequests |-> 1, timeWindowMs |-> 1]
    /\ RLIdle
    /\ ABIdle
    /\ CacheIdle
    /\ defaultTTL = 0
    /\ RetryIdle
    /\ AlertIdle
    /\ MgrIdle
    /\ NFTIdle
    /\ EEIdle
    /\ TMIdle

AlertNext ==
    \/ \E coll \in AlertCollections, target \in AlertTargets, cond \in AlertConditions :
            CreateAlert(coll, target, cond)
    \/ \E id \in AlertIds : RemoveAlert(id)
    \/ \E id \in AlertIds, active \in BOOLEAN : ToggleAlert(id, active)
    \/ \E id \in AlertIds, cb \in AlertCallbacks : OnAlertTriggered(id, cb)
    \/ \E id \in AlertIds, cb \in AlertCallbacks : RemoveCallback(id, cb)
    \/ \E prices \in PriceMaps : CheckAlerts(prices)
    \/ StartMonitoring
    \/ StopMonitoring
    \/ \E h \in alertTimers : MonitorFire(h)
    \/ \E prices \in PriceMaps : PricesReturn(FALSE, prices)
    \/ PricesReturn(TRUE, <<>>)
    \/ ClearAllAlerts

SpecAlert == AlertInit /\ [][AlertNext]_vars

\* C34 (single purchase): a wallet transfer that returns confirmed belongs to
\* a position for which no earlier transfer returned confirmed (a confirmed
\* transfer records the fulfilment, and nothing erases it).
C34_SinglePurchase ==
    [][(abRet'.op = "transfer" /\ abRet'.outcome = "confirmed") =>
            posObj[abRet'.pos].purchased = NoFulfilment]_vars

\* C35 (fulfilment consistency): a position has a fulfilment record exactly
\* when its status is purchased, and a transfer that returns confirmed leaves
\* the position purchased with attempts and error as they were, also when a
\* purchase observer throws.
C35_FulfilmentConsistency ==
    [][ /\ \A p \in DOMAIN posObj' :
              (posObj'[p].purchased # NoFulfilment) <=> (posObj'[p].status = "purchased")
        /\ (abRet'.op = "transfer" /\ abRet'.outcome = "confirmed") =>
              LET p == abRet'.pos IN
              /\ posObj'[p].status = "purchased"
              /\ posObj'[p].attempts = posObj[p].attempts
              /\ posObj'[p].error = posObj[p].error
      ]_vars

----------------------------------------------------------------------------
(* AutoBuyService: pausing and resuming *)

\* C24 (pause / resume): pausePosition(id) returns true and sets the status to
\* stopped exactly when the position is in the Map with status active;
\* resumePosition(id) returns true, sets the status to active and attempts to 0
\* exactly when it is in the Map with status stopped; otherwise they return
\* false and change nothing; no other position and no other field is touched.
C24_PauseResume ==
    [][ LET id == abRet'.pos
            others == \A q \in DOMAIN posObj : q # id => posObj'[q] = posObj[q]
        IN
        /\ abRet'.op \in {"pausePosition", "resumePosition"} =>
              /\ positions' = positions
              /\ DOMAIN posObj' = DOMAIN posObj
              /\ ~abRet'.ok => posObj' = posObj
        /\ abRet'.op = "pausePosition" =>
              /\ abRet'.ok <=> InMap(id) /\ posObj[id].status = "active"
              /\ abRet'.ok => /\ posObj'[id] = [posObj[id] EXCEPT !.status = "stopped"]
                              /\ others
        /\ abRet'.op = "resumePosition" =>
              /\ abRet'.ok <=> InMap(id) /\ posObj[id].status = "stopped"
              /\ abRet'.ok => /\ posObj'[id] = [posObj[id] EXCEPT !.status = "active",
                                                                  !.attempts = 0]
                              /\ others
      ]_vars

\* a position that had failed once and was paused has been resumed, next to
\* another position
C24_Witness ==
    /\ abRet.op = "resumePosition" /\ abRet.ok
    /\ posObj[abRet.pos].error # "" /\ posObj[abRet.pos].attempts = 0
    /\ Len(posObj) = 2

\* the moves of a position's status that the lifecycle allows
AllowedMoves ==
    {<<"active", "purchased">>, <<"active", "stopped">>, <<"active", "error">>,
     <<"stopped", "active">>}

\* C25 (transition relation): a position starts active, and over ticks, pauses
\* and resumes its status only moves active -> purchased, active -> stopped,
\* active -> error or stopped -> active; a stopped position does not become
\* purchased or error unless it is resumed first.
C25_TransitionRelation ==
    [][ /\ \A q \in DOMAIN posObj :
              \/ posObj'[q].status = posObj[q].status
              \/ <<posObj[q].status, posObj'[q].status>> \in AllowedMoves
        /\ \A q \in (DOMAIN posObj') \ (DOMAIN posObj) : posObj'[q].status = "active"
      ]_vars

----------------------------------------------------------------------------
(* The two polling engines side by side: their timers and ticks *)

EnginesNext ==
    \/ \E cfg \in AutoBuyConfigs : CreatePosition(cfg)
    \/ \E ms \in IntervalValues : Start(ms)
    \/ Stop
    \/ \E h \in DOMAIN timers : TimerFire(h)
    \/ \E t \in TickIds : QueryReturn(t, TRUE, <<>>)
    \/ \E id \in 1..MaxPositions : RemovePosition(id)
    \/ \E coll \in AlertCollections, target \in AlertTargets, cond \in AlertConditions :
            CreateAlert(coll, target, cond)
    \/ StartMonitoring
    \/ StopMonitoring
    \/ \E h \in alertTimers : MonitorFire(h)
    \/ \E prices \in PriceMaps : PricesReturn(FALSE, prices)
    \/ PricesReturn(TRUE, <<>>)

SpecEngines == AlertInit /\ [][EnginesNext]_vars

\* C21 (engine stop): when stop() has returned the engine is stopped, it stays
\* stopped until start() is called, and no tick begins while it is stopped; the
\* same for stopMonitoring() / startMonitoring() of the AlertService.
C21_NoTickAfterStop ==
    [][ LET tickBegins == /\ abRet'.op = "tick"
                          /\ (abRet.op # "tick" \/ Running' # Running)
            monitorTickBegins == monitorTicks' > monitorTicks
        IN
        /\ (abRet'.op = "stop" => ~isRunning')
        /\ (~isRunning /\ isRunning' => abRet'.op = "start")
        /\ (~isRunning => ~tickBegins)
        /\ (alertRet'.op = "stopMonitoring" => monitorInterval' = 0)
        /\ (monitorInterval = 0 /\ monitorInterval' # 0
                => alertRet'.op = "startMonitoring")
        /\ (monitorInterval = 0 => ~monitorTickBegins)
      ]_vars

\* both engines were stopped while a tick of theirs was still in flight
C21_Witness ==
    /\ abRet.op = "stop" /\ Running # {}
    /\ alertRet.op = "stopMonitoring" /\ monitorTicks > 0

\* C37 (single timer): each engine has at most one live interval timer, the
\* one its handle names; isActive() (isRunning) is true exactly when the timer
\* of the AutoBuyService exists, monitorInterval is set exactly when the timer
\* of the AlertService exists; after start() / startMonitoring() there is
\* exactly one.
C37_SingleTimer ==
    /\ Cardinality(DOMAIN timers) <= 1
    /\ isRunning <=> DOMAIN timers # {}
    /\ isRunning => DOMAIN timers = {checkInterval}
    /\ abRet.op = "start" => Cardinality(DOMAIN timers) = 1
    /\ Cardinality(alertTimers) <= 1
    /\ monitorInterval # 0 <=> alertTimers # {}
    /\ monitorInterval # 0 => alertTimers = {monitorInterval}
    /\ alertRet.op = "startMonitoring" => Cardinality(alertTimers) = 1

\* start() and startMonitoring() have returned while a tick that began before
\* the call is still in flight
C37_Witness ==
    /\ abRet.op = "start" /\ Running # {}
    /\ alertRet.op = "startMonitoring" /\ monitorTicks > 0

----------------------------------------------------------------------------
(* AlertService: claims *)

\* the steps in which checkAlerts ran: called directly, or by the monitor
CheckOps == {"checkAlerts", "monitorCheck"}

\* the alert is active, a price is supplied for its collection, and the price
\* is on the triggering side of the target or equal to it
ConditionHolds(alert, prices) ==
    /\ alert.active
    /\ alert.collectionAddress \in DOMAIN prices
    /\ LET price == prices[alert.collectionAddress] IN
       \/ alert.condition = "above" /\ DecLeq(alert.targetPrice, price)
       \/ alert.condition = "below" /\ DecLeq(price, alert.targetPrice)

\* the ids of the alerts whose condition holds, in the order of the Map
ExpectedTriggered(as, prices) ==
    LET hit == SelectSeq(as, LAMBDA a : ConditionHolds(a, prices))
    IN [i \in DOMAIN hit |-> hit[i].id]

\* the callbacks a check called for alert id, in the order of the calls
InvokedFor(invoked, id) ==
    LET mine == SelectSeq(invoked, LAMBDA x : x[1] = id)
    IN [i \in DOMAIN mine |-> mine[i][2]]

\* C22 (no auto-deactivation): an alert that a check triggered, calling each of
\* its callbacks, is still active after it, and when the next check finds its
\* condition holding again, it triggers the alert again and calls each of its
\* callbacks again.
C22_NoAutoDeactivation ==
    [][ alertRet.op \in CheckOps /\ alertRet'.op \in CheckOps =>
          \A i \in DOMAIN alerts :
             (/\ \E j \in DOMAIN alertRet.triggered : alertRet.triggered[j] = alerts[i].id
              /\ InvokedFor(alertRet.invoked, alerts[i].id)
                    = CallbacksOf(callbacks, alerts[i].id))
             => /\ alerts' = alerts
                /\ alerts[i].active
                /\ ConditionHolds(alerts[i], alertRet'.prices) =>
                      /\ \E j \in DOMAIN alertRet'.triggered :
                            alertRet'.triggered[j] = alerts[i].id
                      /\ InvokedFor(alertRet'.invoked, alerts[i].id)
                            = CallbacksOf(callbacks, alerts[i].id)
      ]_vars

\* C23 (trigger evaluation): the alerts checkAlerts collects for its result are
\* exactly the active alerts with a supplied price at or beyond their target
\* (a price equal to the target included), and it calls exactly the callbacks
\* registered under each such alert's id, once each, and no others.
C23_TriggerEvaluation ==
    alertRet.op \in CheckOps =>
        /\ alertRet.triggered = ExpectedTriggered(alerts, alertRet.prices)
        /\ \A id \in AlertIds :
              InvokedFor(alertRet.invoked, id) =
                 IF \E j \in DOMAIN alertRet.triggered : alertRet.triggered[j] = id
                 THEN CallbacksOf(callbacks, id)
                 ELSE <<>>

\* C33 (callback isolation): in one check, every callback registered for an
\* alert whose condition holds is called, whether or not a callback called
\* before it in that check threw.
C33_AlertCallbackIsolation ==
    alertRet.op \in CheckOps =>
        \A i \in DOMAIN alerts :
            ConditionHolds(alerts[i], alertRet.prices) =>
                Len(InvokedFor(alertRet.invoked, alerts[i].id))
                    = Len(CallbacksOf(callbacks, alerts[i].id))

----------------------------------------------------------------------------
(* UserRateLimiterManager *)

MaxMgrTicks == 2      \* steps of the clock in the manager specification
MaxMgrSleepers == 1   \* callers of acquire asleep per limiter

MgrClockStep == 500

\* the configurations passed to the constructor
UserConfigs == {[blur |-> [maxRequests |-> 1]], [blur |-> Undefined]}

\* the service names passed to the manager; magicEden and '' are never configured
MgrServices == {"blur", "magicEden", ""}

MgrKey == "default"

MgrPartials == {[maxRequests |-> 2], [timeWindowMs |-> 500]}

SetLimiter(s, l) == [limiters EXCEPT ![s] = l]

RemoveAt(q, i) == [j \in 1..(Len(q) - 1) |-> IF j < i THEN q[j] ELSE q[j + 1]]

\* limiter.acquire(key) on the limiter of service s, whose other sleepers are rest
LimiterAcquire(s, key, rest) ==
    LET l == limiters[s]
        valid == ValidTimestamps(GetLog(l.requests, key), now, l.config)
        ret == MgrRet("acquire", s, key)
    IN
    IF AcquireMustWait(valid, now, l.config)
    THEN /\ Len(rest) < MaxMgrSleepers
         /\ limiters' = SetLimiter(s, [l EXCEPT !.sleepers =
                Append(rest, [key |-> key,
                              wakeAt |-> now + WaitTime(valid, now, l.config)])])
         /\ mgrRet' = [ret EXCEPT !.slept = TRUE,
                                  !.wait = WaitTime(valid, now, l.config)]
    ELSE /\ limiters' = SetLimiter(s, [l EXCEPT
                !.requests = SetLog(l.requests, key, Append(valid, now)),
                !.sleepers = rest])
         /\ mgrRet' = [ret EXCEPT !.ok = TRUE]

\* acquire(service, key)
MgrAcquire(s, key) ==
    /\ IF s \notin DOMAIN limiters
       THEN /\ mgrRet' = [MgrRet("acquire", s, key) EXCEPT !.ok = TRUE]
            /\ UNCHANGED limiters
       ELSE LimiterAcquire(s, key, limiters[s].sleepers)
    /\ UNCHANGED <<now, notMgr>>

\* the sleep of a caller of acquire ends and it runs limiter.acquire(key) again
MgrAcquireResume(s, i) ==
    /\ s \in DOMAIN limiters
    /\ i \in DOMAIN limiters[s].sleepers
    /\ now >= limiters[s].sleepers[i].wakeAt
    /\ LimiterAcquire(s, limiters[s].sleepers[i].key, RemoveAt(limiters[s].sleepers, i))
    /\ UNCHANGED <<now, notMgr>>

\* tryAcquire(service, key)
MgrTryAcquire(s, key) ==
    /\ IF s \notin DOMAIN limiters
       THEN /\ mgrRet' = [MgrRet("tryAcquire", s, key) EXCEPT !.ok = TRUE]
            /\ UNCHANGED limiters
       ELSE LET l == limiters[s]
                valid == ValidTimestamps(GetLog(l.requests, key), now, l.config)
                ok == ~AtLimit(valid, l.config)
            IN
            /\ limiters' = IF ok
                           THEN SetLimiter(s, [l EXCEPT !.requests =
                                    SetLog(l.requests, key, Append(valid, now))])
                           ELSE limiters
            /\ mgrRet' = [MgrRet("tryAcquire", s, key) EXCEPT !.ok = ok]
    /\ UNCHANGED <<now, notMgr>>

\* getWaitTime(service, key)
MgrGetWaitTime(s, key) ==
    /\ mgrRet' =
         IF s \notin DOMAIN limiters
         THEN [MgrRet("getWaitTime", s, key) EXCEPT !.wait = 0]
         ELSE LET r == GetWaitTimeResult(limiters[s].requests, key, now,
                                         limiters[s].config)
              IN [MgrRet("getWaitTime", s, key) EXCEPT !.wait = r.wait, !.nan = r.nan]
    /\ UNCHANGED <<now, limiters, notMgr>>

\* updateConfig(service, config)
MgrUpdateConfig(s, partial) ==
    /\ limiters' = IF s \in DOMAIN limiters
                   THEN SetLimiter(s, [limiters[s] EXCEPT
                            !.config = Merge(limiters[s].config, partial)])
                   ELSE limiters
    /\ mgrRet' = MgrRet("updateConfig", s, "")
    /\ UNCHANGED <<now, notMgr>>

\* reset(service): `if (service)` is false for the empty string as for
\* undefined; limiter.reset() is called without a key and clears every log
MgrReset(s) ==
    /\ limiters' =
         IF Truthy(s)
         THEN IF s \in DOMAIN limiters
              THEN SetLimiter(s, [limiters[s] EXCEPT
                       !.requests = ResetLogs(limiters[s].requests, "undefined")])
              ELSE limiters
         ELSE [x \in DOMAIN limiters |->
                  [limiters[x] EXCEPT
                       !.requests = ResetLogs(limiters[x].requests, "undefined")]]
    /\ mgrRet' = MgrRet("reset", s, "")
    /\ UNCHANGED <<now, notMgr>>

\* time passes
MgrTick ==
    /\ now < MaxMgrTicks * MgrClockStep
    /\ now' = now + MgrClockStep
    /\ mgrRet' = NoCall
    /\ UNCHANGED <<limiters, notMgr>>

\* new UserRateLimiterManager(userConfig)
MgrInit ==
    /\ now = 0
    /\ config = [maxRequests |-> 1, timeWindowMs |-> 1]
    /\ RLIdle
    /\ ABIdle
    /\ CacheIdle
    /\ defaultTTL = 0
    /\ RetryIdle
    /\ AlertIdle
    /\ limiters \in {InitializeLimiters(u) : u \in UserConfigs}
    /\ mgrRet = NoCall
    /\ NFTIdle
    /\ EEIdle
    /\ TMIdle

MgrNext ==
    \/ \E s \in MgrServices : MgrAcquire(s, MgrKey)
    \/ \E s \in MgrServices, i \in 1..MaxMgrSleepers : MgrAcquireResume(s, i)
    \/ \E s \in MgrServices : MgrTryAcquire(s, MgrKey)
    \/ \E s \in MgrServices : MgrGetWaitTime(s, MgrKey)
    \/ \E s \in MgrServices, p \in MgrPartials : MgrUpdateConfig(s, p)
    \/ \E s \in MgrServices \cup {"undefined"} : MgrReset(s)
    \/ MgrTick

SpecMgr == MgrInit /\ [][MgrNext]_vars

\* the manager keeps no limiter for the service the last call named
UnknownService(s) == s # "undefined" /\ s \notin DOMAIN limiters

\* C38 (unknown service): a call that names a service without a limiter
\* resolves true without sleeping (acquire), returns true (tryAcquire) or
\* returns 0 (getWaitTime), and no call that names such a service, updateConfig
\* and reset included, changes the configuration or the logs of any limiter.
C38_UnknownService ==
    [][ (mgrRet'.op # "none" /\ UnknownService(mgrRet'.service)) =>
            /\ \A x \in DOMAIN limiters :
                  /\ x \in DOMAIN limiters'
                  /\ limiters'[x].config = limiters[x].config
                  /\ limiters'[x].requests = limiters[x].requests
            /\ DOMAIN limiters' = DOMAIN limiters
            /\ mgrRet'.op = "acquire" => mgrRet'.ok /\ ~mgrRet'.slept
            /\ mgrRet'.op = "tryAcquire" => mgrRet'.ok
            /\ mgrRet'.op = "getWaitTime" => mgrRet'.wait = 0 /\ ~mgrRet'.nan
      ]_vars

----------------------------------------------------------------------------
(* EventEmitter *)

MaxListeners == 2     \* listeners registered per event type
MaxAnyListeners == 1  \* onAny listeners

EventTypes == {"price.alert", "error"}

\* the callbacks handed to on, once and onAny; the callback "throws" throws
EventCallbacks == {"f", "g", "throws"}

\* a registered listener: the callback itself, or the wrapper once() made of it
Listener(cb, once) == [cb |-> cb, once |-> once]

\* this.listeners.get(event) || []
ListenersOf(ls, type) == IF type \in DOMAIN ls THEN ls[type] ELSE <<>>

SetListeners(ls, type, v) ==
    [t \in (DOMAIN ls) \cup {type} |-> IF t = type THEN v ELSE ls[t]]

\* listeners.indexOf(callback), 0 for -1.  A wrapper of once() is known to
\* nobody but itself, so a callback handed to off() matches plain listeners only.
ListenerIndexOf(arr, cb) ==
    IF \E i \in DOMAIN arr : arr[i] = Listener(cb, FALSE)
    THEN CHOOSE i \in DOMAIN arr :
            /\ arr[i] = Listener(cb, FALSE)
            /\ \A j \in 1..(i - 1) : arr[j] # Listener(cb, FALSE)
    ELSE 0

\* on(event, callback)
On(type, cb) ==
    /\ Len(ListenersOf(listeners, type)) < MaxListeners
    /\ listeners' = SetListeners(listeners, type,
                        Append(ListenersOf(listeners, type), Listener(cb, FALSE)))
    /\ eeRet' = EeRet("on", type)
    /\ UNCHANGED <<now, allListeners, notEE>>

\* once(event, callback)
Once(type, cb) ==
    /\ Len(ListenersOf(listeners, type)) < MaxListeners
    /\ listeners' = SetListeners(listeners, type,
                        Append(ListenersOf(listeners, type), Listener(cb, TRUE)))
    /\ eeRet' = EeRet("once", type)
    /\ UNCHANGED <<now, allListeners, notEE>>

\* off(event, callback)
Off(type, cb) ==
    /\ listeners' =
         IF type \in DOMAIN listeners /\ ListenerIndexOf(listeners[type], cb) > 0
         THEN SetListeners(listeners, type,
                  RemoveAt(listeners[type], ListenerIndexOf(listeners[type], cb)))
         ELSE listeners
    /\ eeRet' = EeRet("off", type)
    /\ UNCHANGED <<now, allListeners, notEE>>

\* onAny(callback)
OnAny(cb) ==
    /\ Len(allListeners) < MaxAnyListeners
    /\ allListeners' = Append(allListeners, cb)
    /\ eeRet' = EeRet("onAny", "")
    /\ UNCHANGED <<now, listeners, notEE>>

\* r.arr is the live array, r.orig the positions its elements had when emit began.
\* listeners.forEach(cb => cb(event)) from index k on: forEach reads the live
\* array, visits index k only if it still exists, and a wrapper of once()
\* calls its callback and then splices itself out of that array.
RECURSIVE ForEachListener(_, _, _)
ForEachListener(r, k, n) ==
    IF k > n \/ k > Len(r.arr)
    THEN r
    ELSE LET called == [r EXCEPT !.invoked = Append(@, r.orig[k])] IN
         IF r.arr[k].cb = "throws"
         THEN [called EXCEPT !.threw = TRUE]
         ELSE IF r.arr[k].once
              THEN ForEachListener([called EXCEPT !.arr = RemoveAt(@, k),
                                                  !.orig = RemoveAt(@, k)],
                                   k + 1, n)
              ELSE ForEachListener(called, k + 1, n)

\* this.allListeners.forEach(cb => cb(event)): the number of listeners called
AnyCalled(any) ==
    IF \E i \in DOMAIN any : any[i] = "throws"
    THEN CHOOSE i \in DOMAIN any :
            any[i] = "throws" /\ \A j \in 1..(i - 1) : any[j] # "throws"
    ELSE Len(any)

\* emit(type, data)
Emit(type) ==
    LET before == ListenersOf(listeners, type)
        r == ForEachListener([arr |-> before, orig |-> [i \in DOMAIN before |-> i],
                              invoked |-> <<>>, threw |-> FALSE],
                             1, Len(before))
        anyCalled == IF r.threw THEN 0 ELSE AnyCalled(allListeners)
    IN
    /\ listeners' = IF type \in DOMAIN listeners
                    THEN SetListeners(listeners, type, r.arr)
                    ELSE listeners
    /\ eeRet' = [op |-> "emit", type |-> type, before |-> before,
                 any |-> allListeners, invoked |-> r.invoked, kept |-> r.orig,
                 anyInvoked |-> anyCalled,
                 threw |-> r.threw \/ (\E i \in DOMAIN allListeners :
                                           allListeners[i] = "throws")]
    /\ UNCHANGED <<now, allListeners, notEE>>

\* removeAllListeners(event): `if (event)` is false for undefined
RemoveAllListeners(type) ==
    /\ IF Truthy(type)
       THEN /\ listeners' = [t \in (DOMAIN listeners) \ {type} |-> listeners[t]]
            /\ UNCHANGED allListeners
       ELSE /\ listeners' = <<>>
            /\ allListeners' = <<>>
    /\ eeRet' = EeRet("removeAllListeners", type)
    /\ UNCHANGED <<now, notEE>>

EEInit ==
    /\ now = 0
    /\ config = [maxRequests |-> 1, timeWindowMs |-> 1]
    /\ RLIdle
    /\ ABIdle
    /\ CacheIdle
    /\ defaultTTL = 0
    /\ RetryIdle
    /\ AlertIdle
    /\ MgrIdle
    /\ NFTIdle
    /\ EEIdle
    /\ TMIdle

EENext ==
    \/ \E t \in EventTypes, cb \in EventCallbacks : On(t, cb)
    \/ \E t \in EventTypes, cb \in EventCallbacks : Once(t, cb)
    \/ \E t \in EventTypes, cb \in EventCallbacks : Off(t, cb)
    \/ \E cb \in EventCallbacks : OnAny(cb)
    \/ \E t \in EventTypes : Emit(t)
    \/ \E t \in EventTypes \cup {"undefined"} : RemoveAllListeners(t)

SpecEE == EEInit /\ [][EENext]_vars

\* C39 (emit delivery): emit calls every listener that was registered for the
\* type when emit was called exactly once, in registration order, and then
\* every onAny listener once, also when a once() listener removes itself during
\* the emit; a once() listener that emit has called is registered no longer,
\* so that no later emit calls it again.
C39_EmitDelivery ==
    eeRet.op = "emit" =>
        /\ eeRet.invoked = [i \in DOMAIN eeRet.before |-> i]
        /\ eeRet.anyInvoked = Len(eeRet.any)
        /\ \A i \in DOMAIN eeRet.invoked :
              eeRet.before[eeRet.invoked[i]].once =>
                  \A j \in DOMAIN eeRet.kept : eeRet.kept[j] # eeRet.invoked[i]

----------------------------------------------------------------------------
(* TransactionMonitor *)

MaxTxCallbacks == 2   \* callbacks registered per transaction hash

TxHashes == {"0x1", "0x2"}

\* onUpdate: undefined, or a callback that returns or throws
TxCallbackArgs == {"undefined", "returns", "throws"}

\* checkTransactionStatus(hash): withRetry around a function that returns
\* 'confirmed'
CheckTransactionStatus(hash) == "confirmed"

\* this.callbacks.get(hash) || []
TxCallbacksOf(hash) == IF hash \in DOMAIN txCallbacks THEN txCallbacks[hash] ELSE <<>>

\* watchTransaction(hash, onUpdate) and startPolling()
WatchTransaction(hash, onUpdate) ==
    /\ onUpdate # "undefined" => Len(TxCallbacksOf(hash)) < MaxTxCallbacks
    /\ pendingTxs' = [h \in (DOMAIN pendingTxs) \cup {hash} |->
                         IF h = hash THEN [status |-> "pending"] ELSE pendingTxs[h]]
    /\ txCallbacks' =
         IF onUpdate # "undefined"
         THEN [h \in (DOMAIN txCallbacks) \cup {hash} |->
                  IF h = hash THEN Append(TxCallbacksOf(hash), onUpdate)
                  ELSE txCallbacks[h]]
         ELSE txCallbacks
    /\ IF pollInterval # 0
       THEN UNCHANGED <<pollInterval, pollTimers>>
       ELSE LET t == CHOOSE x \in 1..(Cardinality(pollTimers) + 1) :
                        x \notin pollTimers
            IN /\ pollTimers' = pollTimers \cup {t}
               /\ pollInterval' = t
    /\ tmRet' = TmRet("watchTransaction", hash)
    /\ UNCHANGED <<now, notTM>>

\* what one pass of the loop of checkPendingTransactions does with the entry
\* of hash: an entry that is not pending is skipped; otherwise the status is
\* stored in the entry, the callbacks are called, and the entry is deleted
\* unless a callback threw (the catch block only logs)
CheckedEntry(hash) ==
    IF pendingTxs[hash].status # "pending"
    THEN [keep |-> TRUE, status |-> pendingTxs[hash].status]
    ELSE [keep |-> Called(TxCallbacksOf(hash)).threw
                      \/ CheckTransactionStatus(hash) = "pending",
          status |-> CheckTransactionStatus(hash)]

\* the interval timer t fires: checkPendingTransactions().  Its awaits are of
\* promises that settle without a timer or I/O, so no other call runs in between.
PollFire(t) ==
    LET left == {h \in DOMAIN pendingTxs : CheckedEntry(h).keep} IN
    /\ t \in pollTimers
    /\ pendingTxs' = [h \in left |-> [status |-> CheckedEntry(h).status]]
    /\ tmRet' = TmRet("poll", "")
    /\ UNCHANGED <<now, txCallbacks, pollInterval, pollTimers, notTM>>

\* stopWatching(hash)
StopWatching(hash) ==
    /\ pendingTxs' = [h \in (DOMAIN pendingTxs) \ {hash} |-> pendingTxs[h]]
    /\ txCallbacks' = [h \in (DOMAIN txCallbacks) \ {hash} |-> txCallbacks[h]]
    /\ IF DOMAIN pendingTxs' = {} /\ pollInterval # 0
       THEN /\ pollTimers' = pollTimers \ {pollInterval}
            /\ pollInterval' = 0
       ELSE UNCHANGED <<pollInterval, pollTimers>>
    /\ tmRet' = TmRet("stopWatching", hash)
    /\ UNCHANGED <<now, notTM>>

\* stopAll()
StopAll ==
    /\ pendingTxs' = <<>>
    /\ txCallbacks' = <<>>
    /\ pollTimers' = pollTimers \ {pollInterval}
    /\ pollInterval' = 0
    /\ tmRet' = TmRet("stopAll", "")
    /\ UNCHANGED <<now, notTM>>

TMInit ==
    /\ now = 0
    /\ config = [maxRequests |-> 1, timeWindowMs |-> 1]
    /\ RLIdle
    /\ ABIdle
    /\ CacheIdle
    /\ defaultTTL = 0
    /\ RetryIdle
    /\ AlertIdle
    /\ MgrIdle
    /\ NFTIdle
    /\ EEIdle
    /\ TMIdle

TMNext ==
    \/ \E h \in TxHashes, cb \in TxCallbackArgs : WatchTransaction(h, cb)
    \/ \E t \in pollTimers : PollFire(t)
    \/ \E h \in TxHashes : StopWatching(h)
    \/ StopAll

SpecTM == TMInit /\ [][TMNext]_vars

\* the transactions the monitor still has to resolve
PendingHashes == {h \in DOMAIN pendingTxs : pendingTxs[h].status = "pending"}

\* C40 (timer lifecycle): the poll timer runs exactly while some watched
\* transaction is pending, in particular it is cleared once a poll tick has
\* resolved and removed the last one, and there is never more than one poll
\* timer.
C40_TimerLifecycle ==
    /\ Cardinality(pollTimers) <= 1
    /\ pollTimers # {} <=> PendingHashes # {}

----------------------------------------------------------------------------
(* NFTSevice: floor prices.  The callers of the floor price methods are the  *)
(* callers of acquire() on priceRateLimiter, whose state is the RateLimiter  *)
(* state above.                                                               *)

\* the age in milliseconds at which a cached floor price is fresh no longer
PriceFreshMs == 60000

\* the instants of the clock in this specification
NftTimes == {0, 1, PriceFreshMs - 1, PriceFreshMs}

\* two spellings of the address of one collection
Collections == {"0xAB", "0xab"}

\* collectionAddress.toLowerCase()
ToLowerCase(a) == IF a = "0xAB" THEN "0xab" ELSE a

\* `floor:${collectionAddress.toLowerCase()}`, kept as a pair
FloorKey(coll) == <<"floor", ToLowerCase(coll)>>

Methods == {"getCollectionFloorPrice", "getFloorPriceWithRateLimit"}

\* the key handed to priceRateLimiter.acquire by either method
LimiterKey(method, coll) ==
    IF method = "getCollectionFloorPrice"
    THEN <<"nft", ToLowerCase(coll)>>
    ELSE <<ToLowerCase(coll)>>

FloorPrices == {"1.5", "2.5"}

\* what fetchFloorPriceFromAPI does: it resolves a price or null, or throws
\* (wallet.getChainId() stands outside its try block)
FetchOutcomes == FloorPrices \cup {NullValue, "throws"}

\* cached && Date.now() - cached.lastUpdated < 60000
PriceHit(cache, coll, t) ==
    /\ FloorKey(coll) \in DOMAIN cache
    /\ t - cache[FloorKey(coll)].lastUpdated < PriceFreshMs

\* this.priceCache.get(cacheKey)?.floorPrice || null
CachedPrice(cache, coll) ==
    IF FloorKey(coll) \in DOMAIN cache THEN cache[FloorKey(coll)].floorPrice
    ELSE NullValue

\* nftCalls: cached is the local `cached` of a call that has not returned yet,
\* hit: the call returned the cached price, result: the value it resolved
NftCall(pc, method, coll, cached, hit, result) ==
    [pc |-> pc, method |-> method, coll |-> coll, cached |-> cached, hit |-> hit,
     result |-> result]

SetNftCall(c, v) ==
    [x \in (DOMAIN nftCalls) \cup {c} |-> IF x = c THEN v ELSE nftCalls[x]]

NftFree(c) == IF c \in DOMAIN nftCalls THEN nftCalls[c].pc = "done" ELSE TRUE

\* (mutant) the limiter is asked before the cache is looked at: a call
\* answered from the cache records an admission as well
FloorPriceCall_AdmitsHits(c, method, coll, useCache) ==
    LET key == LimiterKey(method, coll)
        valid == ValidTimestamps(GetLog(requests, key), now, config)
    IN
    /\ NftFree(c)
    /\ callers[c].pc # "sleeping"
    /\ IF (method = "getFloorPriceWithRateLimit" \/ useCache)
            /\ PriceHit(priceCache, coll, now)
       THEN /\ nftCalls' = SetNftCall(c, NftCall("done", method, coll, NullValue, TRUE,
                               CachedPrice(priceCache, coll)))
            /\ requests' = SetLog(requests, key, Append(valid, now))
            /\ UNCHANGED <<callers, waitq, rlRet>>
       ELSE /\ AcquireBody(c, key, FALSE)
            /\ nftCalls' = SetNftCall(c, NftCall(
                               IF callers'[c].pc = "sleeping" THEN "acquiring"
                               ELSE "fetching",
                               method, coll, CachedPrice(priceCache, coll), FALSE,
                               NullValue))
    /\ UNCHANGED <<now, config, priceCache, notNFT>>

\* getCollectionFloorPrice(collectionAddress, useCache) and
\* getFloorPriceWithRateLimit(collectionAddress), called by c, up to the
\* return of the cached price or to the first await
FloorPriceCall(c, method, coll, useCache) ==
    /\ NftFree(c)
    /\ callers[c].pc # "sleeping"
    /\ IF (method = "getFloorPriceWithRateLimit" \/ useCache)
            /\ PriceHit(priceCache, coll, now)
       THEN /\ nftCalls' = SetNftCall(c, NftCall("done", method, coll, NullValue, TRUE,
                               CachedPrice(priceCache, coll)))
            /\ UNCHANGED <<requests, callers, waitq, rlRet>>
       ELSE /\ AcquireBody(c, LimiterKey(method, coll), FALSE)
            /\ nftCalls' = SetNftCall(c, NftCall(
                               IF callers'[c].pc = "sleeping" THEN "acquiring"
                               ELSE "fetching",
                               method, coll, CachedPrice(priceCache, coll), FALSE,
                               NullValue))
    /\ UNCHANGED <<now, config, priceCache, notNFT>>

\* the sleep of acquire() ends for caller c: acquire runs again, and once it
\* has resolved the method calls fetchFloorPriceFromAPI
FloorPriceResume(c) ==
    /\ c \in DOMAIN nftCalls
    /\ nftCalls[c].pc = "acquiring"
    /\ callers[c].pc = "sleeping"
    /\ now >= callers[c].wakeAt
    /\ AcquireBody(c, callers[c].key, TRUE)
    /\ nftCalls' = SetNftCall(c, [nftCalls[c] EXCEPT !.pc =
                       IF callers'[c].pc = "sleeping" THEN "acquiring" ELSE "fetching"])
    /\ UNCHANGED <<now, config, priceCache, notNFT>>

\* fetchFloorPriceFromAPI settles for caller c
FetchReturn(c, outcome) ==
    /\ c \in DOMAIN nftCalls
    /\ nftCalls[c].pc = "fetching"
    /\ priceCache' =
         IF outcome \in FloorPrices
         THEN [k \in (DOMAIN priceCache) \cup {FloorKey(nftCalls[c].coll)} |->
                  IF k = FloorKey(nftCalls[c].coll)
                  THEN [floorPrice |-> outcome, lastUpdated |-> now]
                  ELSE priceCache[k]]
         ELSE priceCache
    /\ nftCalls' = SetNftCall(c, [nftCalls[c] EXCEPT
            !.pc = "done",
            !.cached = NullValue,
            !.result = IF outcome = "throws"
                       THEN IF nftCalls[c].method = "getFloorPriceWithRateLimit"
                            THEN nftCalls[c].cached
                            ELSE NullValue
                       ELSE outcome])
    /\ UNCHANGED <<now, rlVars, notNFT>>

\* time passes
NftTick ==
    /\ \E t \in NftTimes : t > now /\ now' = t
    /\ UNCHANGED <<rlVars, nftVars, notNFT>>

\* new NFTSevice(wallet, { nftPrice: new RateLimiter(config) })
NFTInit ==
    /\ now = 0
    /\ config \in [maxRequests : {1}, timeWindowMs : {1, PriceFreshMs}]
    /\ RLIdle
    /\ ABIdle
    /\ CacheIdle
    /\ defaultTTL = 0
    /\ RetryIdle
    /\ AlertIdle
    /\ MgrIdle
    /\ NFTIdle
    /\ EEIdle
    /\ TMIdle

NFTNext ==
    \/ \E c \in Callers, m \in Methods, a \in Collections, u \in BOOLEAN :
          FloorPriceCall(c, m, a, u)
    \/ \E c \in Callers : FloorPriceResume(c)
    \/ \E c \in Callers, o \in FetchOutcomes : FetchReturn(c, o)
    \/ NftTick

SpecNFT == NFTInit /\ [][NFTNext]_vars

\* caller c has been answered from the cache in this step (a step that
\* repeats the caller's last call with the same answer changes nothing at all)
AnsweredFromCache(c) ==
    /\ NftFree(c)
    /\ c \in DOMAIN nftCalls'
    /\ nftCalls'[c].hit
    /\ IF c \in DOMAIN nftCalls THEN nftCalls'[c] # nftCalls[c] ELSE TRUE

\* caller c goes on to fetchFloorPriceFromAPI in this step
BeginsFetch(c) ==
    /\ c \in DOMAIN nftCalls'
    /\ nftCalls'[c].pc = "fetching"
    /\ IF c \in DOMAIN nftCalls THEN nftCalls[c].pc # "fetching" ELSE TRUE

\* C32 (cache hits bypass the limiter): a call of either floor price method
\* that is answered from the cache returns the cached price of an entry
\* younger than 60 s, puts no caller to sleep and leaves the limiter's
\* request logs as they are; the logs change only in a step in which a caller
\* is admitted and goes on to the fetch, and every caller that goes on to the
\* fetch has been admitted in that step.
C32_CacheHitBypassesLimiter ==
    [][ /\ \A c \in Callers :
            AnsweredFromCache(c) =>
                /\ requests' = requests
                /\ callers' = callers
                /\ waitq' = waitq
                /\ nftCalls'[c].pc = "done"
                /\ FloorKey(nftCalls'[c].coll) \in DOMAIN priceCache
                /\ now - priceCache[FloorKey(nftCalls'[c].coll)].lastUpdated < PriceFreshMs
                /\ nftCalls'[c].result = priceCache[FloorKey(nftCalls'[c].coll)].floorPrice
        /\ requests' # requests =>
              \E c \in Callers : BeginsFetch(c) /\ ~nftCalls'[c].hit
        /\ \A c \in Callers :
              BeginsFetch(c) =>
                  LET log == GetLog(requests', LimiterKey(nftCalls'[c].method,
                                                          nftCalls'[c].coll))
                  IN log # <<>> /\ log[Len(log)] = now
      ]_vars

\* a call was answered from the cache while the limiter was at its limit for
\* the call's key: the call would have had to wait
C32_Witness ==
    \E c \in DOMAIN nftCalls :
        /\ nftCalls[c].pc = "done"
        /\ nftCalls[c].hit
        /\ AcquireMustWait(ValidTimestamps(GetLog(requests,
                               LimiterKey(nftCalls[c].method, nftCalls[c].coll)),
                                           now, config),
                           now, config)

====
